---- MODULE Spec2Model ----
(***************************************************************************)
(* Model of the hierarchical resource cache of kubegems                    *)
(* (package cache, RedisModelCache): the flat "_model_cache" hash of       *)
(* tenancy entities, its Tree Builder, its Mutation API and its lookups.   *)
(*                                                                         *)
(* The Redis backend is modelled by what its commands do: HSET, HDEL,      *)
(* EXISTS and HGET on one hash.  A hash with no field left does not exist. *)
(* Every backend command and every relational query of an operation may    *)
(* fail; the operation then takes the error path the code takes.           *)
(***************************************************************************)
EXTENDS Integers, Sequences, FiniteSets, TLC

VARIABLES
    db,      \* the relational store the cache was constructed with (t.DB)
    cache,   \* the fields of the Redis hash ModelCacheKey: field -> stored bytes
    authority, \* the per-user Redis keys: userAuthorityKey -> stored bytes and TTL
    last,    \* the last completed call: operation, arguments, error, commands
    calls,   \* number of completed calls
    history, \* what the completed calls were: see History
    procs    \* the calls in progress of concurrent callers, one per caller

vars == <<db, cache, authority, last, calls, history, procs>>

(***************************************************************************)
(* Bounds and input domains.                                               *)
(***************************************************************************)
MaxCalls == 2

IDs == {1, 2}

\* The concurrent callers.
Procs == {1, 2}

Names == {"acme", "web"}

Clusters == {"c1", "c2"}

Namespaces == {"ns1"}

(***************************************************************************)
(* Resource kinds (models.ResTenant, ...).                                 *)
(***************************************************************************)
ResTenant == "tenant"

ResProject == "project"

ResEnvironment == "environment"

ResVirtualSpace == "virtualspace"

Kinds == {ResTenant, ResProject, ResEnvironment, ResVirtualSpace}

(***************************************************************************)
(* Entity, its keys and its serialised form.                               *)
(***************************************************************************)
Entity(name, kind, id, namespace, cluster, owner) ==
    [Name |-> name, Kind |-> kind, ID |-> id,
     Namespace |-> namespace, Cluster |-> cluster, Owner |-> owner]

\* An owner reference, &Entity{Kind: kind, ID: id}: every other field zero.
OwnerRef(kind, id) == Entity("", kind, id, "", "", <<>>)

ZeroEntity == Entity("", "", 0, "", "", <<>>)

cacheKey(kind, id) == kind \o "_" \o ToString(id)

envCacheKey(cluster, namespace) == "env_" \o cluster \o "_" \o namespace

\* Serialisation of an Entity to the stored JSON object (lower-case field
\* names), owners nested.
RECURSIVE Marshal(_)
Marshal(e) ==
    [name |-> e.Name, kind |-> e.Kind, id |-> e.ID,
     namespace |-> e.Namespace, cluster |-> e.Cluster,
     owner |-> [i \in 1..Len(e.Owner) |-> Marshal(e.Owner[i])]]

RECURSIVE Unmarshal(_)
Unmarshal(v) ==
    [Name |-> v.name, Kind |-> v.kind, ID |-> v.id,
     Namespace |-> v.namespace, Cluster |-> v.cluster,
     Owner |-> [i \in 1..Len(v.owner) |-> Unmarshal(v.owner[i])]]

\* n.toPair(): the entity under its primary key.
toPair(n) == (cacheKey(n.Kind, n.ID) :> Marshal(n))

\* n.toEnvPair(): the entity under its cluster/namespace key.
toEnvPair(n) == (envCacheKey(n.Cluster, n.Namespace) :> Marshal(n))

(***************************************************************************)
(* Redis commands on the hash.  Each yields the error and the new hash.    *)
(***************************************************************************)
\* HSET key <map>: every field of the map is set, in one command.
\* The reply n is the number of fields that were new.
HSetMap(h, m, up) ==
    IF up THEN [err |-> FALSE, hash |-> m @@ h,
                n |-> Cardinality(DOMAIN m \ DOMAIN h)]
    ELSE [err |-> TRUE, hash |-> h, n |-> 0]

\* HSET key <args...>: a flat field, value, field, value ... list.  Redis
\* rejects a list that is not made of pairs (wrong number of arguments).
RECURSIVE SetPairs(_, _)
SetPairs(h, args) ==
    IF Len(args) < 2 THEN h
    ELSE SetPairs((args[1] :> args[2]) @@ h, SubSeq(args, 3, Len(args)))

HSetArgs(h, args, up) ==
    IF up /\ Len(args) > 0 /\ Len(args) % 2 = 0
    THEN [err |-> FALSE, hash |-> SetPairs(h, args),
          n |-> Cardinality(DOMAIN SetPairs(h, args) \ DOMAIN h)]
    ELSE [err |-> TRUE, hash |-> h, n |-> 0]

\* HDEL key field: removing an absent field is no error.  The reply n is the
\* number of fields removed.
HDel(h, field, up) ==
    IF up THEN [err |-> FALSE, hash |-> [k \in DOMAIN h \ {field} |-> h[k]],
                n |-> IF field \in DOMAIN h THEN 1 ELSE 0]
    ELSE [err |-> TRUE, hash |-> h, n |-> 0]

\* EXISTS key: the number of keys that exist; a hash without fields is no key.
Exists(h) == IF DOMAIN h = {} THEN 0 ELSE 1

EmptyHash == [k \in {} |-> ZeroEntity]

(***************************************************************************)
(* The relational store: the rows the Tree Builder scans.                  *)
(***************************************************************************)
TenantRow(id, name) == [ID |-> id, TenantName |-> name]

ProjectRow(id, tid, name) == [ID |-> id, TenantID |-> tid, ProjectName |-> name]

\* hasCluster = FALSE is a row whose preloaded Cluster is nil.
EnvironmentRow(id, pid, name, namespace, hasCluster, cluster) ==
    [ID |-> id, ProjectID |-> pid, EnvironmentName |-> name,
     Namespace |-> namespace, HasCluster |-> hasCluster, ClusterName |-> cluster]

VirtualSpaceRow(id, name) == [ID |-> id, VirtualSpaceName |-> name]

SystemRoleRow(id, code) == [ID |-> id, RoleCode |-> code]

\* A role-relation row of one resource kind, its resource's name joined in.
UserRel(uid, rid, rname, role) ==
    [UserID |-> uid, ResourceID |-> rid, ResourceName |-> rname, Role |-> role]

DBEmpty ==
    [tenants |-> <<>>, projects |-> <<>>, envs |-> <<>>, vspaces |-> <<>>,
     sysroles |-> <<>>, turs |-> <<>>, purs |-> <<>>, eurs |-> <<>>, vurs |-> <<>>]

DBFull ==
    [tenants |-> <<TenantRow(1, "acme")>>,
     projects |-> <<ProjectRow(2, 1, "web")>>,
     envs |-> <<EnvironmentRow(1, 2, "web", "ns1", TRUE, "c1"),
                EnvironmentRow(2, 2, "acme", "ns1", FALSE, "")>>,
     vspaces |-> <<VirtualSpaceRow(1, "acme")>>,
     sysroles |-> <<SystemRoleRow(1, "sysadmin"), SystemRoleRow(2, "normal")>>,
     turs |-> <<UserRel(1, 1, "acme", "admin"), UserRel(2, 1, "acme", "ordinary")>>,
     purs |-> <<UserRel(1, 2, "web", "admin")>>,
     eurs |-> <<UserRel(1, 1, "web", "operator"), UserRel(2, 1, "web", "reader")>>,
     vurs |-> <<UserRel(2, 1, "acme", "admin")>>]

DBs == {DBEmpty, DBFull}

(***************************************************************************)
(* Tree Builder.                                                           *)
(***************************************************************************)
RECURSIVE PutTenants(_, _)
PutTenants(m, rows) ==
    IF rows = <<>> THEN m
    ELSE LET n == Entity(Head(rows).TenantName, ResTenant, Head(rows).ID, "", "", <<>>)
         IN PutTenants(toPair(n) @@ m, Tail(rows))

RECURSIVE PutProjects(_, _)
PutProjects(m, rows) ==
    IF rows = <<>> THEN m
    ELSE LET n == Entity(Head(rows).ProjectName, ResProject, Head(rows).ID, "", "",
                         <<OwnerRef(ResTenant, Head(rows).TenantID)>>)
         IN PutProjects(toPair(n) @@ m, Tail(rows))

\* Variant: an environment row is put under its primary key only.
RECURSIVE PutEnvironments_PrimaryOnly(_, _)
PutEnvironments_PrimaryOnly(m, rows) ==
    IF rows = <<>> THEN m
    ELSE IF ~Head(rows).HasCluster THEN PutEnvironments_PrimaryOnly(m, Tail(rows))
    ELSE LET n == Entity(Head(rows).EnvironmentName, ResEnvironment, Head(rows).ID,
                         Head(rows).Namespace, Head(rows).ClusterName,
                         <<OwnerRef(ResProject, Head(rows).ProjectID)>>)
         IN PutEnvironments_PrimaryOnly(toPair(n) @@ m, Tail(rows))

RECURSIVE PutEnvironments(_, _)
PutEnvironments(m, rows) ==
    IF rows = <<>> THEN m
    ELSE IF ~Head(rows).HasCluster THEN PutEnvironments(m, Tail(rows))
    ELSE LET n == Entity(Head(rows).EnvironmentName, ResEnvironment, Head(rows).ID,
                         Head(rows).Namespace, Head(rows).ClusterName,
                         <<OwnerRef(ResProject, Head(rows).ProjectID)>>)
         IN PutEnvironments(toEnvPair(n) @@ (toPair(n) @@ m), Tail(rows))

RECURSIVE PutVirtualSpaces(_, _)
PutVirtualSpaces(m, rows) ==
    IF rows = <<>> THEN m
    ELSE LET n == Entity(Head(rows).VirtualSpaceName, ResVirtualSpace, Head(rows).ID,
                         "", "", <<>>)
         IN PutVirtualSpaces(toPair(n) @@ m, Tail(rows))

\* Variant: the scan stops before the virtual spaces.
DataMap_NoVirtualSpaces(d) ==
    PutEnvironments(
        PutProjects(PutTenants(EmptyHash, d.tenants), d.projects),
        d.envs)

\* The dataMap of one full scan of the store.
DataMap(d) ==
    PutVirtualSpaces(
        PutEnvironments(
            PutProjects(PutTenants(EmptyHash, d.tenants), d.projects),
            d.envs),
        d.vspaces)

\* The reads of the store a rebuild makes, in order.
StoreReads == <<"tenants", "projects", "envs", "vspaces">>

\* The reads made by a rebuild whose read `fail` returned an error; none when
\* the existence check did.
ReadsUpTo(fail) ==
    IF fail = "exists" THEN <<>>
    ELSE SubSeq(StoreReads, 1, CHOOSE i \in 1..Len(StoreReads) : StoreReads[i] = fail)

\* A line written to the log.
LogLine(level, msg) == [level |-> level, msg |-> msg]

\* The steps of a rebuild at which a failure can happen.
BuildFailures == {"none", "exists", "tenants", "projects", "envs", "vspaces", "hset"}

\* Variant: the rebuild goes on when the key exists.
BuildCache_NoExistsCheck(h, d, fail) ==
    IF fail \in {"exists", "tenants", "projects", "envs", "vspaces"}
    THEN [err |-> TRUE, hash |-> h, cmds |-> <<"EXISTS">>, failed |-> fail,
          down |-> TRUE, n |-> 0, reads |-> ReadsUpTo(fail), logs |-> <<>>]
    ELSE IF DOMAIN DataMap(d) = {}
    THEN [err |-> FALSE, hash |-> h, cmds |-> <<"EXISTS">>, failed |-> "none",
          down |-> FALSE, n |-> 0, reads |-> StoreReads,
          logs |-> <<LogLine("info", "empty cache data")>>]
    ELSE LET r == HSetMap(h, DataMap(d), fail # "hset")
         IN [err |-> r.err, hash |-> r.hash, cmds |-> <<"EXISTS", "HSET">>,
             failed |-> IF r.err THEN "hset" ELSE "none",
             down |-> r.err, n |-> r.n, reads |-> StoreReads,
             logs |-> IF r.err THEN <<LogLine("error", "failed to rebuild cache")>>
                      ELSE <<>>]

\* Variant: a failed read of the virtual spaces is passed over and the rest
\* of the scan is written.
BuildCache_SkipFailedRead(h, d, fail) ==
    IF fail = "exists"
    THEN [err |-> TRUE, hash |-> h, cmds |-> <<"EXISTS">>, failed |-> fail,
          down |-> TRUE, n |-> 0, reads |-> ReadsUpTo(fail), logs |-> <<>>]
    ELSE IF Exists(h) > 0
    THEN [err |-> FALSE, hash |-> h, cmds |-> <<"EXISTS">>, failed |-> "none",
          down |-> FALSE, n |-> 0, reads |-> <<>>, logs |-> <<>>]
    ELSE IF fail \in {"tenants", "projects", "envs"}
    THEN [err |-> TRUE, hash |-> h, cmds |-> <<"EXISTS">>, failed |-> fail,
          down |-> TRUE, n |-> 0, reads |-> ReadsUpTo(fail), logs |-> <<>>]
    ELSE IF fail = "vspaces"
    THEN LET r == HSetMap(h, DataMap_NoVirtualSpaces(d), TRUE)
         IN [err |-> TRUE, hash |-> r.hash, cmds |-> <<"EXISTS", "HSET">>,
             failed |-> fail, down |-> TRUE, n |-> r.n, reads |-> StoreReads,
             logs |-> <<>>]
    ELSE IF DOMAIN DataMap(d) = {}
    THEN [err |-> FALSE, hash |-> h, cmds |-> <<"EXISTS">>, failed |-> "none",
          down |-> FALSE, n |-> 0, reads |-> StoreReads,
          logs |-> <<LogLine("info", "empty cache data")>>]
    ELSE LET r == HSetMap(h, DataMap(d), fail # "hset")
         IN [err |-> r.err, hash |-> r.hash, cmds |-> <<"EXISTS", "HSET">>,
             failed |-> IF r.err THEN "hset" ELSE "none",
             down |-> r.err, n |-> r.n, reads |-> StoreReads,
             logs |-> IF r.err THEN <<LogLine("error", "failed to rebuild cache")>>
                      ELSE <<>>]

\* Variant: a scan that found no row leaves a marker field, so that the
\* top-level key exists afterwards.
BuildCache_MarkBuilt(h, d, fail) ==
    IF fail = "exists"
    THEN [err |-> TRUE, hash |-> h, cmds |-> <<"EXISTS">>, failed |-> fail,
          down |-> TRUE, n |-> 0, reads |-> ReadsUpTo(fail), logs |-> <<>>]
    ELSE IF Exists(h) > 0
    THEN [err |-> FALSE, hash |-> h, cmds |-> <<"EXISTS">>, failed |-> "none",
          down |-> FALSE, n |-> 0, reads |-> <<>>, logs |-> <<>>]
    ELSE IF fail \in {"tenants", "projects", "envs", "vspaces"}
    THEN [err |-> TRUE, hash |-> h, cmds |-> <<"EXISTS">>, failed |-> fail,
          down |-> TRUE, n |-> 0, reads |-> ReadsUpTo(fail), logs |-> <<>>]
    ELSE LET m == IF DOMAIN DataMap(d) = {} THEN ("_built" :> Marshal(ZeroEntity))
                  ELSE DataMap(d)
             r == HSetMap(h, m, fail # "hset")
         IN [err |-> r.err, hash |-> r.hash, cmds |-> <<"EXISTS", "HSET">>,
             failed |-> IF r.err THEN "hset" ELSE "none",
             down |-> r.err, n |-> r.n, reads |-> StoreReads,
             logs |-> IF r.err THEN <<LogLine("error", "failed to rebuild cache")>>
                      ELSE <<>>]

\* BuildCacheIfNotExist on hash h and store d, with the step `fail` failing if
\* it is reached.  failed: the step that did fail.
BuildCache(h, d, fail) ==
    IF fail = "exists"
    THEN [err |-> TRUE, hash |-> h, cmds |-> <<"EXISTS">>, failed |-> fail,
          down |-> TRUE, n |-> 0, reads |-> ReadsUpTo(fail), logs |-> <<>>]
    ELSE IF Exists(h) > 0
    THEN [err |-> FALSE, hash |-> h, cmds |-> <<"EXISTS">>, failed |-> "none",
          down |-> FALSE, n |-> 0, reads |-> <<>>, logs |-> <<>>]
    ELSE IF fail \in {"tenants", "projects", "envs", "vspaces"}
    THEN [err |-> TRUE, hash |-> h, cmds |-> <<"EXISTS">>, failed |-> fail,
          down |-> TRUE, n |-> 0, reads |-> ReadsUpTo(fail), logs |-> <<>>]
    ELSE IF DOMAIN DataMap(d) = {}
    THEN [err |-> FALSE, hash |-> h, cmds |-> <<"EXISTS">>, failed |-> "none",
          down |-> FALSE, n |-> 0, reads |-> StoreReads,
          logs |-> <<LogLine("info", "empty cache data")>>]
    ELSE LET r == HSetMap(h, DataMap(d), fail # "hset")
         IN [err |-> r.err, hash |-> r.hash, cmds |-> <<"EXISTS", "HSET">>,
             failed |-> IF r.err THEN "hset" ELSE "none",
             down |-> r.err, n |-> r.n, reads |-> StoreReads,
             logs |-> IF r.err THEN <<LogLine("error", "failed to rebuild cache")>>
                      ELSE <<>>]

(***************************************************************************)
(* Lookups.                                                                *)
(***************************************************************************)
NotFound == [found |-> FALSE, e |-> ZeroEntity]

Found(e) == [found |-> TRUE, e |-> e]

\* Whether the stored JSON object decodes into an Entity: the ID of an Entity
\* and of each of its owners is unsigned, and a negative number is refused.
RECURSIVE DecodableEntity(_)
DecodableEntity(v) ==
    /\ v.id >= 0
    /\ \A i \in 1..Len(v.owner) : DecodableEntity(v.owner[i])

\* Variant: the value of the field is returned whether or not it decodes.
HGetEntity_IgnoreDecodeError(h, field) ==
    IF field \in DOMAIN h THEN Found(Unmarshal(h[field])) ELSE NotFound

\* HGET key field, scanned into an Entity; nothing when the field is missing
\* or its value does not decode.
HGetEntity(h, field) ==
    IF field \in DOMAIN h /\ DecodableEntity(h[field])
    THEN Found(Unmarshal(h[field])) ELSE NotFound

FindResource(kind, id) == HGetEntity(cache, cacheKey(kind, id))

FindEnvironment(cluster, namespace) == HGetEntity(cache, envCacheKey(cluster, namespace))

\* FindResource and FindEnvironment as calls: nil when the HGET or the
\* decoding of its reply returns an error, and nothing is logged then.
DoFindResource(h, kind, id, fail) ==
    [entity |-> IF fail = "hget" THEN NotFound ELSE HGetEntity(h, cacheKey(kind, id)),
     cmds |-> <<"HGET">>, failed |-> fail, reads |-> <<>>, logs |-> <<>>]

DoFindEnvironment(h, cluster, namespace, fail) ==
    [entity |-> IF fail = "hget" THEN NotFound
                ELSE HGetEntity(h, envCacheKey(cluster, namespace)),
     cmds |-> <<"HGET">>, failed |-> fail, reads |-> <<>>, logs |-> <<>>]

\* Hop bound of the ancestry traversal: the depth of the tenancy tree.
MaxDepth == 2

\* The server-side traversal: from the entity at (kind, id), follow the first
\* owner one hop at a time and collect the stored parents, nearest first.
RECURSIVE ParentChain(_, _, _)
ParentChain(h, key, hops) ==
    IF hops = 0 \/ key \notin DOMAIN h \/ Len(h[key].owner) = 0 THEN <<>>
    ELSE LET pkey == cacheKey(h[key].owner[1].kind, h[key].owner[1].id)
         IN IF pkey \notin DOMAIN h THEN <<>>
            ELSE <<h[pkey]>> \o ParentChain(h, pkey, hops - 1)

FindParentScript(h, kind, id) == ParentChain(h, cacheKey(kind, id), MaxDepth)

\* Variant: the decoded parents are collected in front of the result.
FindParentsOf_Prepend(h, kind, id) ==
    LET raw == SelectSeq(FindParentScript(h, kind, id), LAMBDA v : DecodableEntity(v))
    IN [i \in 1..Len(raw) |-> Unmarshal(raw[Len(raw) + 1 - i])]

\* Variant: one parent that does not decode ends the call with nothing.
FindParentsOf_AbortOnCorrupt(h, kind, id) ==
    LET raw == FindParentScript(h, kind, id)
    IN IF \E i \in 1..Len(raw) : ~DecodableEntity(raw[i]) THEN <<>>
       ELSE [i \in 1..Len(raw) |-> Unmarshal(raw[i])]

\* The loop of FindParents over the raw parents the script returned: each one
\* is decoded and appended, one that does not decode is passed over.
FindParentsOf(h, kind, id) ==
    LET raw == SelectSeq(FindParentScript(h, kind, id), LAMBDA v : DecodableEntity(v))
    IN [i \in 1..Len(raw) |-> Unmarshal(raw[i])]

FindParents(kind, id) == FindParentsOf(cache, kind, id)

\* FindParents as a call: nothing when the evaluation of the script fails.
DoFindParents(h, kind, id, fail) ==
    IF fail = "eval"
    THEN [parents |-> <<>>, cmds |-> <<"EVAL">>, failed |-> "eval",
          reads |-> <<>>, logs |-> <<LogLine("error", "eval")>>]
    ELSE [parents |-> FindParentsOf(h, kind, id), cmds |-> <<"EVAL">>, failed |-> "none",
          reads |-> <<>>,
          logs |-> [i \in 1..(Len(FindParentScript(h, kind, id))
                               - Len(FindParentsOf(h, kind, id))) |->
                        LogLine("error", "unmarshal")]]

(***************************************************************************)
(* Mutation API.  Each operator is the whole method on hash h: the error   *)
(* it returns, the hash it leaves, the backend commands it issued and the  *)
(* step that failed.  `fail` names the step that fails if it is reached.   *)
(***************************************************************************)
\* failed: the step whose command returned an error; down: it did so because
\* the backend could not be reached; n: the reply of the last command; logs:
\* the error logged for the failed step, named by the step.
Outcome(r, cmds, step, fail) ==
    [err |-> r.err, hash |-> r.hash, cmds |-> cmds,
     failed |-> IF r.err THEN step ELSE "none",
     down |-> r.err /\ fail = step, n |-> r.n, reads |-> <<>>,
     logs |-> IF r.err THEN <<LogLine("error", step)>> ELSE <<>>]

\* Variant: a failed write is tried once more and its error dropped.
DoUpsertTenant_Retry(h, tid, name, fail) ==
    LET n == Entity(name, ResTenant, tid, "", "", <<>>)
        r1 == HSetMap(h, toPair(n), fail # "hset1")
        r2 == HSetMap(h, toPair(n), TRUE)
    IN IF r1.err
       THEN [err |-> r2.err, hash |-> r2.hash, cmds |-> <<"HSET", "HSET">>,
             failed |-> "hset1", down |-> fail = "hset1", n |-> r2.n,
             reads |-> <<>>, logs |-> <<>>]
       ELSE Outcome(r1, <<"HSET">>, "hset1", fail)

DoUpsertTenant(h, tid, name, fail) ==
    LET n == Entity(name, ResTenant, tid, "", "", <<>>)
    IN Outcome(HSetMap(h, toPair(n), fail # "hset1"), <<"HSET">>, "hset1", fail)

\* Variant: the delete cascades to the projects the tenant owns.
DoDelTenant_Cascade(h, tid, fail) ==
    LET r == HDel(h, cacheKey(ResTenant, tid), fail # "hdel1")
        keep == {k \in DOMAIN r.hash :
                    ~(/\ r.hash[k].kind = ResProject
                      /\ r.hash[k].owner = <<Marshal(OwnerRef(ResTenant, tid))>>)}
    IN IF r.err THEN Outcome(r, <<"HDEL">>, "hdel1", fail)
       ELSE Outcome([err |-> FALSE, hash |-> [k \in keep |-> r.hash[k]], n |-> r.n],
                    <<"HDEL">>, "hdel1", fail)

DoDelTenant(h, tid, fail) ==
    Outcome(HDel(h, cacheKey(ResTenant, tid), fail # "hdel1"), <<"HDEL">>, "hdel1", fail)

\* Variant: the project is written without its owner.
DoUpsertProject_NoOwner(h, tid, pid, name, fail) ==
    LET n == Entity(name, ResProject, pid, "", "", <<>>)
    IN Outcome(HSetMap(h, toPair(n), fail # "hset1"), <<"HSET">>, "hset1", fail)

DoUpsertProject(h, tid, pid, name, fail) ==
    LET n == Entity(name, ResProject, pid, "", "", <<OwnerRef(ResTenant, tid)>>)
    IN Outcome(HSetMap(h, toPair(n), fail # "hset1"), <<"HSET">>, "hset1", fail)

\* Variant: the key deleted is built from the tenant id.
DoDelProject_TenantID(h, tid, pid, fail) ==
    Outcome(HDel(h, cacheKey(ResProject, tid), fail # "hdel1"), <<"HDEL">>, "hdel1", fail)

\* Variant: the delete cascades to the environments the project owns.
DoDelProject_Cascade(h, tid, pid, fail) ==
    LET r == HDel(h, cacheKey(ResProject, pid), fail # "hdel1")
        keep == {k \in DOMAIN r.hash :
                    ~(/\ r.hash[k].kind = ResEnvironment
                      /\ r.hash[k].owner = <<Marshal(OwnerRef(ResProject, pid))>>)}
    IN IF r.err THEN Outcome(r, <<"HDEL">>, "hdel1", fail)
       ELSE Outcome([err |-> FALSE, hash |-> [k \in keep |-> r.hash[k]], n |-> r.n],
                    <<"HDEL">>, "hdel1", fail)

DoDelProject(h, tid, pid, fail) ==
    Outcome(HDel(h, cacheKey(ResProject, pid), fail # "hdel1"), <<"HDEL">>, "hdel1", fail)

\* Variant: the environment is written under its primary key only.
DoUpsertEnvironment_PrimaryOnly(h, pid, eid, name, cluster, namespace, fail) ==
    LET n == Entity(name, ResEnvironment, eid, namespace, cluster,
                    <<OwnerRef(ResProject, pid)>>)
    IN Outcome(HSetMap(h, toPair(n), fail # "hset1"), <<"HSET">>, "hset1", fail)

\* Variant: the owner of the environment is recorded with the kind of a tenant.
DoUpsertEnvironment_TenantOwner(h, pid, eid, name, cluster, namespace, fail) ==
    LET n == Entity(name, ResEnvironment, eid, namespace, cluster,
                    <<OwnerRef(ResTenant, pid)>>)
        r1 == HSetMap(h, toPair(n), fail # "hset1")
    IN IF r1.err THEN Outcome(r1, <<"HSET">>, "hset1", fail)
       ELSE Outcome(HSetMap(r1.hash, toEnvPair(n), fail # "hset2"),
                    <<"HSET", "HSET">>, "hset2", fail)

DoUpsertEnvironment(h, pid, eid, name, cluster, namespace, fail) ==
    LET n == Entity(name, ResEnvironment, eid, namespace, cluster,
                    <<OwnerRef(ResProject, pid)>>)
        r1 == HSetMap(h, toPair(n), fail # "hset1")
    IN IF r1.err THEN Outcome(r1, <<"HSET">>, "hset1", fail)
       ELSE Outcome(HSetMap(r1.hash, toEnvPair(n), fail # "hset2"),
                    <<"HSET", "HSET">>, "hset2", fail)

\* Variant: the second HDEL names the cluster and namespace without the prefix
\* of envCacheKey.
DoDelEnvironment_UnprefixedKey(h, pid, eid, cluster, namespace, fail) ==
    LET r1 == HDel(h, cacheKey(ResEnvironment, eid), fail # "hdel1")
    IN IF r1.err THEN Outcome(r1, <<"HDEL">>, "hdel1", fail)
       ELSE Outcome(HDel(r1.hash, cluster \o "_" \o namespace, fail # "hdel2"),
                    <<"HDEL", "HDEL">>, "hdel2", fail)

DoDelEnvironment(h, pid, eid, cluster, namespace, fail) ==
    LET r1 == HDel(h, cacheKey(ResEnvironment, eid), fail # "hdel1")
    IN IF r1.err THEN Outcome(r1, <<"HDEL">>, "hdel1", fail)
       ELSE Outcome(HDel(r1.hash, envCacheKey(cluster, namespace), fail # "hdel2"),
                    <<"HDEL", "HDEL">>, "hdel2", fail)

\* The HSET of UpsertVirtualSpace is given the field alone, no value.
DoUpsertVirtualSpace(h, vid, name, fail) ==
    Outcome(HSetArgs(h, <<cacheKey(ResVirtualSpace, vid)>>, fail # "hset1"),
            <<"HSET">>, "hset1", fail)

DoDelVirtualSpace(h, vid, fail) ==
    Outcome(HDel(h, cacheKey(ResVirtualSpace, vid), fail # "hdel1"),
            <<"HDEL">>, "hdel1", fail)

(***************************************************************************)
(* User Authority Aggregator.                                              *)
(***************************************************************************)
userAuthorizationDataExpireMinute == 180

TenantRoleAdmin == "admin"

ProjectRoleAdmin == "admin"

EnvironmentRoleOperator == "operator"

VirtualSpaceRoleAdmin == "admin"

User(name, id, roleID) == [Username |-> name, ID |-> id, SystemRoleID |-> roleID]

Users == {User("alice", 1, 1), User("bob", 2, 2)}

\* Variant: one key for every user.
userAuthorityKey_Shared(username) == "user_authority_data__"

userAuthorityKey(username) == "user_authority_data__" \o username

\* The key of the hash that holds the entity map.
ModelCacheKey == "_model_cache"

UserResource(id, name, role, isAdmin) ==
    [ID |-> id, Name |-> name, Role |-> role, IsAdmin |-> isAdmin]

\* new(UserAuthority)
EmptyAuthority ==
    [SystemRole |-> "", Tenants |-> <<>>, Projects |-> <<>>,
     Environments |-> <<>>, VirtualSpaces |-> <<>>]

MarshalResources(rs) ==
    [i \in 1..Len(rs) |->
        [id |-> rs[i].ID, name |-> rs[i].Name, role |-> rs[i].Role,
         isAdmin |-> rs[i].IsAdmin]]

UnmarshalResources(vs) ==
    [i \in 1..Len(vs) |-> UserResource(vs[i].id, vs[i].name, vs[i].role, vs[i].isAdmin)]

MarshalAuthority(a) ==
    [systemRole |-> a.SystemRole, tenants |-> MarshalResources(a.Tenants),
     projects |-> MarshalResources(a.Projects),
     environments |-> MarshalResources(a.Environments),
     virtualSpaces |-> MarshalResources(a.VirtualSpaces)]

UnmarshalAuthority(v) ==
    [SystemRole |-> v.systemRole, Tenants |-> UnmarshalResources(v.tenants),
     Projects |-> UnmarshalResources(v.projects),
     Environments |-> UnmarshalResources(v.environments),
     VirtualSpaces |-> UnmarshalResources(v.virtualSpaces)]

\* DB.First(&sysrole): the role code of the row with that ID; the zero value
\* when the query fails or finds no row.
SystemRoleCode(rows, id, ok) ==
    LET hit == SelectSeq(rows, LAMBDA r : r.ID = id)
    IN IF ok /\ Len(hit) > 0 THEN hit[1].RoleCode ELSE ""

\* DB.Preload(...).Find(&rels, "user_id = ?", id): nothing when the query fails.
RelsOf(rows, uid, ok) ==
    IF ok THEN SelectSeq(rows, LAMBDA r : r.UserID = uid) ELSE <<>>

\* Variant: the list is filled from its last slot down.
Flatten_Reversed(rels, adminRole) ==
    [i \in 1..Len(rels) |->
        UserResource(rels[Len(rels) + 1 - i].ResourceID,
                     rels[Len(rels) + 1 - i].ResourceName,
                     rels[Len(rels) + 1 - i].Role,
                     rels[Len(rels) + 1 - i].Role = adminRole)]

\* The loops of FlushUserAuthority: slot i of a list is made of row i.
Flatten(rels, adminRole) ==
    [i \in 1..Len(rels) |->
        UserResource(rels[i].ResourceID, rels[i].ResourceName, rels[i].Role,
                     rels[i].Role = adminRole)]

\* The queries of the store a flush makes, in order; one that fails is logged
\* and the next one made.
AuthorityReads == <<"sysrole", "tenants", "projects", "envs", "vspaces">>

\* The steps of a flush at which a failure can happen.
FlushFailures == {"none", "sysrole", "tenants", "projects", "envs", "vspaces", "set"}

\* Variant: a failing relational query aborts the aggregation.
ComputeAuthority_AbortOnError(d, user, fail) ==
    IF fail \in {"sysrole", "tenants", "projects", "envs", "vspaces"}
    THEN EmptyAuthority
    ELSE [SystemRole |-> SystemRoleCode(d.sysroles, user.SystemRoleID, TRUE),
          Tenants |-> Flatten(RelsOf(d.turs, user.ID, TRUE), TenantRoleAdmin),
          Projects |-> Flatten(RelsOf(d.purs, user.ID, TRUE), ProjectRoleAdmin),
          Environments |-> Flatten(RelsOf(d.eurs, user.ID, TRUE), EnvironmentRoleOperator),
          VirtualSpaces |-> Flatten(RelsOf(d.vurs, user.ID, TRUE), VirtualSpaceRoleAdmin)]

\* The value FlushUserAuthority computes from store d.
ComputeAuthority(d, user, fail) ==
    [SystemRole |-> SystemRoleCode(d.sysroles, user.SystemRoleID, fail # "sysrole"),
     Tenants |-> Flatten(RelsOf(d.turs, user.ID, fail # "tenants"), TenantRoleAdmin),
     Projects |-> Flatten(RelsOf(d.purs, user.ID, fail # "projects"), ProjectRoleAdmin),
     Environments |->
        Flatten(RelsOf(d.eurs, user.ID, fail # "envs"), EnvironmentRoleOperator),
     VirtualSpaces |->
        Flatten(RelsOf(d.vurs, user.ID, fail # "vspaces"), VirtualSpaceRoleAdmin)]

\* SET key value EX ttl: the entry, its time-to-live in minutes (0: none) and
\* the minutes since it was written.
RedisSet(keys, key, value, ttl, up) ==
    IF up THEN (key :> [value |-> value, ttl |-> ttl, age |-> 0]) @@ keys ELSE keys

\* Stored bytes that are no serialised UserAuthority.
Garbled == [garbled |-> TRUE]

\* Whether Scan decodes the stored bytes into a UserAuthority.
DecodableAuthority(v) == DOMAIN v = DOMAIN MarshalAuthority(EmptyAuthority)

\* Redis.Get(key).Scan(&authinfo): "ok", or why it returned an error: "error"
\* (the backend could not be reached), "nil" (no such key), "decode".
ScanAuthority(keys, key, up) ==
    IF ~up THEN "error"
    ELSE IF key \notin DOMAIN keys THEN "nil"
    ELSE IF ~DecodableAuthority(keys[key].value) THEN "decode"
    ELSE "ok"

\* Variant: the entry is written without a time-to-live.
DoFlushUserAuthority_NoExpiry(keys, d, user, fail) ==
    LET auth == ComputeAuthority(d, user, fail)
    IN [result |-> auth,
        keys |-> RedisSet(keys, userAuthorityKey(user.Username),
                          MarshalAuthority(auth), 0, fail # "set"),
        cmds |-> <<"SET">>,
        failed |-> fail, scan |-> "", reads |-> AuthorityReads,
        logs |-> IF fail = "none" THEN <<>> ELSE <<LogLine("error", fail)>>]

\* FlushUserAuthority: the value returned and the keys left.
DoFlushUserAuthority(keys, d, user, fail) ==
    LET auth == ComputeAuthority(d, user, fail)
    IN [result |-> auth,
        keys |-> RedisSet(keys, userAuthorityKey(user.Username),
                          MarshalAuthority(auth),
                          userAuthorizationDataExpireMinute, fail # "set"),
        cmds |-> <<"SET">>,
        failed |-> fail, scan |-> "", reads |-> AuthorityReads,
        logs |-> IF fail = "none" THEN <<>> ELSE <<LogLine("error", fail)>>]

\* Variant: a value that does not decode is returned as the zero authority.
DoGetUserAuthority_NoDecodeFallback(keys, d, user, fail) ==
    LET scan == ScanAuthority(keys, userAuthorityKey(user.Username), fail # "get")
    IN IF scan = "ok"
       THEN [result |-> UnmarshalAuthority(keys[userAuthorityKey(user.Username)].value),
             keys |-> keys, cmds |-> <<"GET">>, failed |-> "none", scan |-> scan,
             reads |-> <<>>, logs |-> <<>>]
       ELSE IF scan = "decode"
       THEN [result |-> EmptyAuthority,
             keys |-> keys, cmds |-> <<"GET">>, failed |-> "none", scan |-> scan,
             reads |-> <<>>, logs |-> <<>>]
       ELSE LET r == DoFlushUserAuthority(keys, d, user,
                                          IF fail = "get" THEN "none" ELSE fail)
            IN [result |-> r.result, keys |-> r.keys, cmds |-> <<"GET", "SET">>,
                failed |-> fail, scan |-> scan, reads |-> r.reads,
                logs |-> <<LogLine("error", "get")>> \o r.logs]

\* Variant: the stored value is refreshed from the store on every call.
DoGetUserAuthority_AlwaysFlush(keys, d, user, fail) ==
    LET scan == ScanAuthority(keys, userAuthorityKey(user.Username), fail # "get")
        r == DoFlushUserAuthority(keys, d, user, IF fail = "get" THEN "none" ELSE fail)
    IN [result |-> r.result, keys |-> r.keys, cmds |-> <<"GET", "SET">>,
        failed |-> fail, scan |-> scan, reads |-> r.reads,
        logs |-> r.logs]

\* GetUserAuthority: the stored value, or a flush when the GET or the decoding
\* of its reply returns an error.
DoGetUserAuthority(keys, d, user, fail) ==
    LET scan == ScanAuthority(keys, userAuthorityKey(user.Username), fail # "get")
    IN IF scan = "ok"
       THEN [result |-> UnmarshalAuthority(keys[userAuthorityKey(user.Username)].value),
             keys |-> keys, cmds |-> <<"GET">>, failed |-> "none", scan |-> scan,
             reads |-> <<>>, logs |-> <<>>]
       ELSE LET r == DoFlushUserAuthority(keys, d, user,
                                          IF fail = "get" THEN "none" ELSE fail)
            IN [result |-> r.result, keys |-> r.keys, cmds |-> <<"GET", "SET">>,
                failed |-> fail, scan |-> scan, reads |-> r.reads,
                logs |-> <<LogLine("error", "get")>> \o r.logs]

NoKeys ==
    [k \in {} |-> [value |-> MarshalAuthority(EmptyAuthority), ttl |-> 0, age |-> 0]]

(***************************************************************************)
(* The state machine: one action per method of ModelCache.  `last` keeps   *)
(* the arguments a method uses; an argument it only logs (the tid of       *)
(* DelProject, the pid of DelEnvironment) is not kept.                     *)
(***************************************************************************)
Call(op, id, name, parent, cluster, namespace, r) ==
    [op |-> op, id |-> id, name |-> name, parent |-> parent,
     cluster |-> cluster, namespace |-> namespace,
     err |-> r.err, cmds |-> r.cmds, failed |-> r.failed,
     down |-> r.down, n |-> r.n, result |-> EmptyAuthority, scan |-> "",
     kind |-> "", parents |-> <<>>, reads |-> r.reads, logs |-> r.logs,
     entity |-> NotFound]

\* A call of the aggregator: it returns a UserAuthority and no error.
AuthorityCall(op, user, r) ==
    [op |-> op, id |-> user.ID, name |-> user.Username, parent |-> 0,
     cluster |-> "", namespace |-> "",
     err |-> FALSE, cmds |-> r.cmds, failed |-> r.failed,
     down |-> r.failed # "none", n |-> 0, result |-> r.result, scan |-> r.scan,
     kind |-> "", parents |-> <<>>, reads |-> r.reads, logs |-> r.logs,
     entity |-> NotFound]

\* A call of the resolver: it returns a list of entities and no error.
ResolverCall(kind, id, r) ==
    [op |-> "FindParents", id |-> id, name |-> "", parent |-> 0,
     cluster |-> "", namespace |-> "",
     err |-> FALSE, cmds |-> r.cmds, failed |-> r.failed,
     down |-> r.failed # "none", n |-> 0, result |-> EmptyAuthority, scan |-> "",
     kind |-> kind, parents |-> r.parents, reads |-> r.reads, logs |-> r.logs,
     entity |-> NotFound]

\* A call of a point lookup: it returns an entity or nil, and no error.
LookupCall(op, kind, id, cluster, namespace, r) ==
    [op |-> op, id |-> id, name |-> "", parent |-> 0,
     cluster |-> cluster, namespace |-> namespace,
     err |-> FALSE, cmds |-> r.cmds, failed |-> r.failed,
     down |-> r.failed # "none", n |-> 0, result |-> EmptyAuthority, scan |-> "",
     kind |-> kind, parents |-> <<>>, reads |-> r.reads, logs |-> r.logs,
     entity |-> r.entity]

NoCall ==
    [op |-> "none", id |-> 0, name |-> "", parent |-> 0, cluster |-> "",
     namespace |-> "", err |-> FALSE, cmds |-> <<>>, failed |-> "none",
     down |-> FALSE, n |-> 0, result |-> EmptyAuthority, scan |-> "",
     kind |-> "", parents |-> <<>>, reads |-> <<>>, logs |-> <<>>,
     entity |-> NotFound]

\* A caller with no call in progress.
IdleProc ==
    [pc |-> "idle", op |-> "none", id |-> 0, name |-> "", parent |-> 0,
     cluster |-> "", namespace |-> "", r |-> 0, data |-> EmptyHash,
     err |-> FALSE, cmds |-> <<>>]

MutationOps ==
    {"UpsertTenant", "DelTenant", "UpsertProject", "DelProject",
     "UpsertEnvironment", "DelEnvironment", "UpsertVirtualSpace", "DelVirtualSpace"}

\* history after one more call: "clean" while every completed call was a
\* Mutation API call that returned no error, "mutations" while every one was
\* a Mutation API call, "mixed" otherwise.
History(hist, op, err) ==
    IF op \notin MutationOps THEN "mixed"
    ELSE IF err /\ hist = "clean" THEN "mutations"
    ELSE hist

Init ==
    /\ db \in DBs
    /\ cache = EmptyHash
    /\ authority = NoKeys
    /\ last = NoCall
    /\ calls = 0
    /\ history = "clean"
    /\ procs = [p \in Procs |-> IdleProc]

Finish(op, id, name, parent, cluster, namespace, r) ==
    /\ cache' = r.hash
    /\ last' = Call(op, id, name, parent, cluster, namespace, r)
    /\ calls' = calls + 1
    /\ history' = History(history, op, r.err)
    /\ UNCHANGED <<db, authority, procs>>

FinishAuthority(op, user, r) ==
    /\ authority' = r.keys
    /\ last' = AuthorityCall(op, user, r)
    /\ calls' = calls + 1
    /\ history' = History(history, op, FALSE)
    /\ UNCHANGED <<db, cache, procs>>

BuildCacheIfNotExist ==
    \E fail \in BuildFailures :
        /\ calls < MaxCalls
        /\ Finish("BuildCacheIfNotExist", 0, "", 0, "", "", BuildCache(cache, db, fail))

UpsertTenant ==
    \E tid \in IDs, name \in Names, fail \in {"none", "hset1"} :
        /\ calls < MaxCalls
        /\ Finish("UpsertTenant", tid, name, 0, "", "",
                  DoUpsertTenant(cache, tid, name, fail))

DelTenant ==
    \E tid \in IDs, fail \in {"none", "hdel1"} :
        /\ calls < MaxCalls
        /\ Finish("DelTenant", tid, "", 0, "", "", DoDelTenant(cache, tid, fail))

UpsertProject ==
    \E tid \in IDs, pid \in IDs, name \in Names, fail \in {"none", "hset1"} :
        /\ calls < MaxCalls
        /\ Finish("UpsertProject", pid, name, tid, "", "",
                  DoUpsertProject(cache, tid, pid, name, fail))

DelProject ==
    \E tid \in IDs, pid \in IDs, fail \in {"none", "hdel1"} :
        /\ calls < MaxCalls
        /\ Finish("DelProject", pid, "", 0, "", "", DoDelProject(cache, tid, pid, fail))

UpsertEnvironment ==
    \E pid \in IDs, eid \in IDs, name \in Names, cluster \in Clusters,
       namespace \in Namespaces, fail \in {"none", "hset1", "hset2"} :
        /\ calls < MaxCalls
        /\ Finish("UpsertEnvironment", eid, name, pid, cluster, namespace,
                  DoUpsertEnvironment(cache, pid, eid, name, cluster, namespace, fail))

DelEnvironment ==
    \E pid \in IDs, eid \in IDs, cluster \in Clusters, namespace \in Namespaces,
       fail \in {"none", "hdel1", "hdel2"} :
        /\ calls < MaxCalls
        /\ Finish("DelEnvironment", eid, "", 0, cluster, namespace,
                  DoDelEnvironment(cache, pid, eid, cluster, namespace, fail))

UpsertVirtualSpace ==
    \E vid \in IDs, name \in Names, fail \in {"none", "hset1"} :
        /\ calls < MaxCalls
        /\ Finish("UpsertVirtualSpace", vid, name, 0, "", "",
                  DoUpsertVirtualSpace(cache, vid, name, fail))

DelVirtualSpace ==
    \E vid \in IDs, fail \in {"none", "hdel1"} :
        /\ calls < MaxCalls
        /\ Finish("DelVirtualSpace", vid, "", 0, "", "",
                  DoDelVirtualSpace(cache, vid, fail))

GetUserAuthority ==
    \E user \in Users, fail \in FlushFailures \cup {"get"} :
        /\ calls < MaxCalls
        /\ FinishAuthority("GetUserAuthority", user,
                           DoGetUserAuthority(authority, db, user, fail))

FlushUserAuthority ==
    \E user \in Users, fail \in FlushFailures :
        /\ calls < MaxCalls
        /\ FinishAuthority("FlushUserAuthority", user,
                           DoFlushUserAuthority(authority, db, user, fail))

\* The backend drops a key whose time-to-live has run out.
ExpireUserAuthority ==
    /\ \E key \in DOMAIN authority :
           authority' = [k \in DOMAIN authority \ {key} |-> authority[k]]
    /\ UNCHANGED <<db, cache, last, calls, history, procs>>

Next ==
    \/ BuildCacheIfNotExist
    \/ UpsertTenant
    \/ DelTenant
    \/ UpsertProject
    \/ DelProject
    \/ UpsertEnvironment
    \/ DelEnvironment
    \/ UpsertVirtualSpace
    \/ DelVirtualSpace
    \/ GetUserAuthority
    \/ FlushUserAuthority
    \/ ExpireUserAuthority

Spec == Init /\ [][Next]_vars

(***************************************************************************)
(* The aggregator over time: the per-user entries age and expire, another  *)
(* writer of the backend may leave bytes that do not decode, and the role  *)
(* assignments of the store change.                                        *)
(***************************************************************************)
TickMinutes == userAuthorizationDataExpireMinute \div 3

\* Entries are followed until this age at most.
MaxAge == 2 * userAuthorizationDataExpireMinute

\* TickMinutes pass: every entry ages, and the backend drops each entry whose
\* time-to-live has run out.
Tick ==
    /\ authority # NoKeys
    /\ \A k \in DOMAIN authority : authority[k].age < MaxAge
    /\ LET aged == [k \in DOMAIN authority |->
                       [authority[k] EXCEPT !.age = @ + TickMinutes]]
           live == {k \in DOMAIN aged : aged[k].ttl = 0 \/ aged[k].age < aged[k].ttl}
       IN authority' = [k \in live |-> aged[k]]
    /\ UNCHANGED <<db, cache, last, calls, history, procs>>

\* The value of a user's key is replaced by bytes that are no UserAuthority;
\* the time-to-live of the key goes on.
CorruptUserAuthority ==
    /\ \E key \in DOMAIN authority :
           /\ DecodableAuthority(authority[key].value)
           /\ authority' = [authority EXCEPT ![key].value = Garbled]
    /\ UNCHANGED <<db, cache, last, calls, history, procs>>

\* The scenario store after more roles were granted: alice has two tenants
\* and two environments, and each kind has a row whose role is the
\* administrative role of another kind.
DBGranted ==
    [DBFull EXCEPT
        !.turs = <<UserRel(1, 1, "acme", "operator"), UserRel(2, 1, "acme", "ordinary"),
                   UserRel(1, 2, "web", "admin")>>,
        !.purs = <<UserRel(1, 2, "web", "operator"), UserRel(1, 1, "acme", "admin")>>,
        !.eurs = <<UserRel(1, 1, "web", "admin"), UserRel(2, 1, "web", "reader"),
                   UserRel(1, 2, "acme", "operator")>>,
        !.vurs = <<UserRel(2, 1, "acme", "admin"), UserRel(2, 2, "web", "operator")>>]

\* The rows of the store change under the cache.
ChangeRoleAssignments ==
    /\ db' \in (DBs \cup {DBGranted}) \ {db}
    /\ UNCHANGED <<cache, authority, last, calls, history, procs>>

AuthorityNext ==
    \/ GetUserAuthority
    \/ FlushUserAuthority
    \/ Tick
    \/ CorruptUserAuthority
    \/ ChangeRoleAssignments

AuthoritySpec == Init /\ [][AuthorityNext]_vars

(***************************************************************************)
(* The resolver over a cache that another writer of the backend may have   *)
(* left values in that do not decode into an Entity.                       *)
(***************************************************************************)
CallFindParents ==
    \E kind \in Kinds, id \in IDs, fail \in {"none", "eval"} :
        /\ calls < MaxCalls
        /\ last' = ResolverCall(kind, id, DoFindParents(cache, kind, id, fail))
        /\ calls' = calls + 1
        /\ history' = History(history, "FindParents", FALSE)
        /\ UNCHANGED <<db, cache, authority, procs>>

\* The value of a field is replaced by one whose id is negative.
CorruptEntity ==
    /\ \E k \in DOMAIN cache :
           /\ DecodableEntity(cache[k])
           /\ cache' = [cache EXCEPT ![k].id = -1]
    /\ UNCHANGED <<db, authority, last, calls, history, procs>>

CallFindResource ==
    \E kind \in Kinds, id \in IDs, fail \in {"none", "hget"} :
        /\ calls < MaxCalls
        /\ last' = LookupCall("FindResource", kind, id, "", "",
                              DoFindResource(cache, kind, id, fail))
        /\ calls' = calls + 1
        /\ history' = History(history, "FindResource", FALSE)
        /\ UNCHANGED <<db, cache, authority, procs>>

CallFindEnvironment ==
    \E cluster \in Clusters, namespace \in Namespaces, fail \in {"none", "hget"} :
        /\ calls < MaxCalls
        /\ last' = LookupCall("FindEnvironment", "", 0, cluster, namespace,
                              DoFindEnvironment(cache, cluster, namespace, fail))
        /\ calls' = calls + 1
        /\ history' = History(history, "FindEnvironment", FALSE)
        /\ UNCHANGED <<db, cache, authority, procs>>

ResolverNext ==
    \/ BuildCacheIfNotExist
    \/ UpsertProject
    \/ CorruptEntity
    \/ CallFindParents
    \/ CallFindResource
    \/ CallFindEnvironment

ResolverSpec == Init /\ [][ResolverNext]_vars

(***************************************************************************)
(* Properties.                                                             *)
(***************************************************************************)
\* The entity an Upsert call with the arguments of `last` builds.
TenantOf(l) == Entity(l.name, ResTenant, l.id, "", "", <<>>)

ProjectOf(l) == Entity(l.name, ResProject, l.id, "", "", <<OwnerRef(ResTenant, l.parent)>>)

EnvironmentOf(l) ==
    Entity(l.name, ResEnvironment, l.id, l.namespace, l.cluster,
           <<OwnerRef(ResProject, l.parent)>>)

VirtualSpaceOf(l) == Entity(l.name, ResVirtualSpace, l.id, "", "", <<>>)

\* C1: dual-key consistency.  After a successful UpsertEnvironment(pid, eid,
\* name, c, ns), FindResource(Environment, eid) and FindEnvironment(c, ns)
\* both return the entity with that Name, ID, Cluster, Namespace and
\* Owners = [{Project, pid}]; after a successful DelEnvironment(pid, eid, c,
\* ns) both lookups report not-found.
C1_DualKeyConsistency ==
    /\ (last.op = "UpsertEnvironment" /\ ~last.err) =>
          /\ FindResource(ResEnvironment, last.id) = Found(EnvironmentOf(last))
          /\ FindEnvironment(last.cluster, last.namespace) = Found(EnvironmentOf(last))
    /\ (last.op = "DelEnvironment" /\ ~last.err) =>
          /\ ~FindResource(ResEnvironment, last.id).found
          /\ ~FindEnvironment(last.cluster, last.namespace).found

\* A successful DelEnvironment that removed the secondary entry right after
\* the environment had been upserted.
C1_Witness ==
    /\ last.op = "DelEnvironment" /\ ~last.err /\ last.n = 1
    /\ calls = 2 /\ history = "clean"
    /\ cache = EmptyHash

\* The environment entries of the hash agree: a secondary entry exists
\* exactly when some primary environment entry has that cluster and namespace,
\* and it then holds the value of such a primary entry.
EnvKeysConsistent(h) ==
    \A c \in Clusters, ns \in Namespaces :
        LET prims == {eid \in IDs :
                         /\ cacheKey(ResEnvironment, eid) \in DOMAIN h
                         /\ h[cacheKey(ResEnvironment, eid)].cluster = c
                         /\ h[cacheKey(ResEnvironment, eid)].namespace = ns}
        IN /\ envCacheKey(c, ns) \in DOMAIN h <=> prims # {}
           /\ envCacheKey(c, ns) \in DOMAIN h =>
                 \E eid \in prims :
                    h[cacheKey(ResEnvironment, eid)] = h[envCacheKey(c, ns)]

\* C2: in every state reached by completed, successful Mutation API calls
\* only, the primary and secondary environment keys are mutually consistent;
\* stated at the states an UpsertEnvironment has just produced (the case of
\* an eid upserted again with another cluster or namespace).
C2_KeysMutuallyConsistent ==
    (history = "clean" /\ last.op = "UpsertEnvironment") => EnvKeysConsistent(cache)

\* C3: ancestry correctness.  With tenant T, project P owned by T and
\* environment E owned by P in the cache, FindParents(Environment, E) is
\* [P, T] in that order, FindParents(Project, P) is [T], and
\* FindParents(VirtualSpace, V) is empty.
C3_AncestryCorrectness ==
    /\ \A t \in IDs, p \in IDs, e \in IDs :
          LET T == FindResource(ResTenant, t)
              P == FindResource(ResProject, p)
              E == FindResource(ResEnvironment, e)
          IN (/\ T.found /\ P.found /\ E.found
              /\ P.e.Owner = <<OwnerRef(ResTenant, t)>>
              /\ E.e.Owner = <<OwnerRef(ResProject, p)>>)
             => /\ FindParents(ResEnvironment, e) = <<P.e, T.e>>
                /\ FindParents(ResProject, p) = <<T.e>>
    /\ \A v \in IDs : FindParents(ResVirtualSpace, v) = <<>>

\* A cache holding a tenant, its project, the project's environment and a
\* virtual space, the environment's chain being two parents long.
C3_Witness ==
    /\ \E e \in IDs :
          /\ FindResource(ResEnvironment, e).found
          /\ Len(FindParents(ResEnvironment, e)) = 2
          /\ FindParents(ResEnvironment, e)[1].Kind = ResProject
          /\ FindParents(ResEnvironment, e)[2].Kind = ResTenant
    /\ \E v \in IDs : FindResource(ResVirtualSpace, v).found

\* A step that completes a call of the rebuild.
BuildStep == last'.op = "BuildCacheIfNotExist" /\ calls' = calls + 1

\* C4: idempotence of the Tree Builder.  A BuildCacheIfNotExist called while
\* the top-level key exists leaves the key set and the values of the cache
\* unchanged, issues no write, and returns success (it returns an error only
\* when the existence check itself cannot reach the backend).
C4_BuildIdempotent ==
    [][(BuildStep /\ Exists(cache) > 0) =>
          /\ cache' = cache
          /\ last'.cmds = <<"EXISTS">>
          /\ (last'.failed # "exists" => ~last'.err)]_vars

\* A rebuild that returned success on a populated cache, after the EXISTS probe only.
C4_Witness ==
    /\ last.op = "BuildCacheIfNotExist" /\ ~last.err
    /\ last.cmds = <<"EXISTS">>
    /\ Exists(cache) > 0
    /\ calls = 2

\* The entity a rebuild makes of a row of the store.
TenantEntity(row) == Entity(row.TenantName, ResTenant, row.ID, "", "", <<>>)

ProjectEntity(row) ==
    Entity(row.ProjectName, ResProject, row.ID, "", "", <<OwnerRef(ResTenant, row.TenantID)>>)

EnvironmentEntity(row) ==
    Entity(row.EnvironmentName, ResEnvironment, row.ID, row.Namespace, row.ClusterName,
           <<OwnerRef(ResProject, row.ProjectID)>>)

VirtualSpaceEntity(row) == Entity(row.VirtualSpaceName, ResVirtualSpace, row.ID, "", "", <<>>)

Rows(seq) == {seq[i] : i \in 1..Len(seq)}

ResolvedEnvs(d) == {row \in Rows(d.envs) : row.HasCluster}

\* The keys a full scan of store d stands for.
StoreKeys(d) ==
    {cacheKey(ResTenant, row.ID) : row \in Rows(d.tenants)}
    \cup {cacheKey(ResProject, row.ID) : row \in Rows(d.projects)}
    \cup {cacheKey(ResEnvironment, row.ID) : row \in ResolvedEnvs(d)}
    \cup {envCacheKey(row.ClusterName, row.Namespace) : row \in ResolvedEnvs(d)}
    \cup {cacheKey(ResVirtualSpace, row.ID) : row \in Rows(d.vspaces)}

StoreNonEmpty(d) ==
    Len(d.tenants) + Len(d.projects) + Len(d.envs) + Len(d.vspaces) > 0

\* Hash h is the image of store d: one primary entry per tenant, project,
\* virtual-space and cluster-resolved environment row, every such environment
\* also under its secondary key with the same value, and nothing else.
ImageOfStore(h, d) ==
    /\ DOMAIN h = StoreKeys(d)
    /\ \A row \in Rows(d.tenants) :
          HGetEntity(h, cacheKey(ResTenant, row.ID)) = Found(TenantEntity(row))
    /\ \A row \in Rows(d.projects) :
          /\ HGetEntity(h, cacheKey(ResProject, row.ID)) = Found(ProjectEntity(row))
          /\ HGetEntity(h, cacheKey(ResProject, row.ID)).e.Owner
                = <<OwnerRef(ResTenant, row.TenantID)>>
          /\ \A t \in Rows(d.tenants) :
                t.ID = row.TenantID =>
                   FindParentsOf(h, ResProject, row.ID) = <<TenantEntity(t)>>
    /\ \A row \in ResolvedEnvs(d) :
          /\ HGetEntity(h, cacheKey(ResEnvironment, row.ID)) = Found(EnvironmentEntity(row))
          /\ HGetEntity(h, envCacheKey(row.ClusterName, row.Namespace))
                = Found(EnvironmentEntity(row))
          /\ h[cacheKey(ResEnvironment, row.ID)]
                = h[envCacheKey(row.ClusterName, row.Namespace)]
    /\ \A row \in Rows(d.vspaces) :
          HGetEntity(h, cacheKey(ResVirtualSpace, row.ID)) = Found(VirtualSpaceEntity(row))

\* C5: after a successful BuildCacheIfNotExist on a cold cache with a
\* non-empty store, the cache holds exactly one primary entry per tenant,
\* project, virtual-space and cluster-resolved environment row, each such
\* environment also under its secondary key with the same value, projects
\* owned by [{Tenant, tenantID}] and environments by [{Project, projectID}];
\* FindParents of a project is its tenant's entity.
C5_BuildWritesImageOfStore ==
    [][(BuildStep /\ Exists(cache) = 0 /\ ~last'.err /\ StoreNonEmpty(db)) =>
          ImageOfStore(cache', db)]_vars

\* A successful bulk write of the scenario store: project 2 "web" of tenant 1
\* "acme" is found with its owner, and an environment is found by both keys.
C5_Witness ==
    /\ last.op = "BuildCacheIfNotExist" /\ ~last.err
    /\ last.cmds = <<"EXISTS", "HSET">>
    /\ FindResource(ResProject, 2).found
    /\ FindResource(ResProject, 2).e.Owner = <<OwnerRef(ResTenant, 1)>>
    /\ FindParents(ResProject, 2) = <<Entity("acme", ResTenant, 1, "", "", <<>>)>>
    /\ FindEnvironment("c1", "ns1") = FindResource(ResEnvironment, 1)
    /\ FindEnvironment("c1", "ns1").found

\* Every tenant, project, cluster-resolved environment and virtual-space row
\* of store d has its entries in hash h.
AllRowsCached(h, d) == StoreKeys(d) \subseteq DOMAIN h

\* A rebuild that follows Mutation API calls only (made against a cache no
\* rebuild has touched) and returns success.
RebuildAfterMutations ==
    BuildStep /\ calls >= 1 /\ history \in {"clean", "mutations"} /\ ~last'.err

\* C6 as stated: when Mutation API calls were made against an unbuilt cache,
\* the next BuildCacheIfNotExist that returns success has reconciled it: every
\* row of the store has its entry in the cache.
C6_RebuildReconcilesSparseCache ==
    [][RebuildAfterMutations => AllRowsCached(cache', db)]_vars

\* C6 as amended: the next successful BuildCacheIfNotExist reconciles only a
\* cache whose top-level key is absent when it runs (every tenant, project,
\* virtual-space and cluster-resolved environment row then has its entry);
\* while the sparse cache holds an entry the call is a no-op and the cache
\* stays as the Mutation API calls left it.
C6_RebuildSkipsSparseCache ==
    [][RebuildAfterMutations =>
          /\ Exists(cache) > 0 => cache' = cache
          /\ Exists(cache) = 0 => AllRowsCached(cache', db)]_vars

\* A successful rebuild that left a sparse cache sparse: tenant 2, which only
\* an UpsertTenant can have put there, is all the cache holds of a store
\* with rows.
C6_Witness ==
    /\ last.op = "BuildCacheIfNotExist" /\ ~last.err
    /\ FindResource(ResTenant, 2).found
    /\ StoreNonEmpty(db)
    /\ ~AllRowsCached(cache, db)

\* C7: UpsertVirtualSpace(vid, name) writes the virtual space's primary-key
\* entry: called with the backend reachable it returns success, and
\* FindResource(VirtualSpace, vid) then returns the entity with that ID and
\* Name and no owners.
C7_UpsertVirtualSpaceWrites ==
    (last.op = "UpsertVirtualSpace" /\ ~last.down) =>
        /\ ~last.err
        /\ FindResource(ResVirtualSpace, last.id) = Found(VirtualSpaceOf(last))

\* C8: after a successful UpsertTenant(tid, name), FindResource(Tenant, tid)
\* is the entity with that ID and Name and no owners; after a successful
\* UpsertProject(tid, pid, name), FindResource(Project, pid) is the entity
\* with that ID and Name and Owners = [{Tenant, tid}]; whatever was stored
\* under the key before.
C8_UpsertReplacesPrimaryEntry ==
    /\ (last.op = "UpsertTenant" /\ ~last.err) =>
          FindResource(ResTenant, last.id) = Found(TenantOf(last))
    /\ (last.op = "UpsertProject" /\ ~last.err) =>
          /\ FindResource(ResProject, last.id) = Found(ProjectOf(last))
          /\ FindResource(ResProject, last.id).e.Owner = <<OwnerRef(ResTenant, last.parent)>>

\* A successful UpsertProject on a key that held a value already (the HSET
\* added no field).
C8_Witness ==
    /\ last.op = "UpsertProject" /\ ~last.err /\ last.n = 0
    /\ FindResource(ResProject, last.id).found

\* The kind of entity a Mutation API method is about.
KindOfOp(op) ==
    CASE op \in {"UpsertTenant", "DelTenant"} -> ResTenant
      [] op \in {"UpsertProject", "DelProject"} -> ResProject
      [] op \in {"UpsertEnvironment", "DelEnvironment"} -> ResEnvironment
      [] op \in {"UpsertVirtualSpace", "DelVirtualSpace"} -> ResVirtualSpace

\* C9: after DelTenant, DelProject or DelVirtualSpace returns success,
\* FindResource(kind, id) reports not-found; deleting an entry that is absent
\* succeeds (the backend being reachable) and leaves the cache unchanged.
C9_DeleteRemovesPrimaryEntry ==
    [][(calls' = calls + 1 /\ last'.op \in {"DelTenant", "DelProject", "DelVirtualSpace"}) =>
          LET key == cacheKey(KindOfOp(last'.op), last'.id)
          IN /\ ~last'.err => ~HGetEntity(cache', key).found
             /\ (key \notin DOMAIN cache /\ ~last'.down) =>
                   (~last'.err /\ cache' = cache)]_vars

\* A successful DelVirtualSpace that removed an entry that was there.
C9_Witness ==
    /\ last.op = "DelVirtualSpace" /\ ~last.err /\ last.n = 1
    /\ ~FindResource(ResVirtualSpace, last.id).found

\* A step that completes a call of the Mutation API.
MutationStep == calls' = calls + 1 /\ last'.op \in MutationOps

\* The keys a Mutation API call is about.
TargetKeys(l) ==
    {cacheKey(KindOfOp(l.op), l.id)}
    \cup (IF l.op \in {"UpsertEnvironment", "DelEnvironment"}
          THEN {envCacheKey(l.cluster, l.namespace)} ELSE {})

\* C10: frame of the Mutation API.  An Upsert or Delete changes only the
\* entity's primary-key entry (and, for an environment, the secondary entry
\* of the given cluster and namespace); every other entry of the cache, every
\* per-user authority entry and the store are unchanged, and the call issues
\* no read command.
C10_MutationFrame ==
    [][MutationStep =>
          /\ \A k \in (DOMAIN cache \cup DOMAIN cache') \ TargetKeys(last') :
                k \in DOMAIN cache /\ k \in DOMAIN cache' /\ cache'[k] = cache[k]
          /\ authority' = authority
          /\ db' = db
          /\ \A i \in 1..Len(last'.cmds) : last'.cmds[i] \in {"HSET", "HDEL"}]_vars

\* A successful DelProject that removed the project while its tenant, its
\* environment (both keys) and a virtual space stay in the cache.
C10_Witness ==
    /\ last.op = "DelProject" /\ ~last.err /\ last.n = 1
    /\ FindResource(ResTenant, 1).found
    /\ FindResource(ResEnvironment, 1).found
    /\ FindResource(ResEnvironment, 1).e.Owner = <<OwnerRef(ResProject, last.id)>>
    /\ FindEnvironment("c1", "ns1").found
    /\ FindResource(ResVirtualSpace, 1).found

\* The entries of hash h that are owned by the entity (kind, id).
ChildKeys(h, kind, id) ==
    {k \in DOMAIN h : h[k].owner = <<Marshal(OwnerRef(kind, id))>>}

\* C11: deletion independence.  DelProject(tid, pid) removes no entry of an
\* environment the project owns, under its primary or its secondary key, and
\* DelTenant(tid) removes no entry of a project the tenant owns: the children
\* stay in the cache with their values; no delete cascades.
C11_DeletionIndependence ==
    [][/\ (calls' = calls + 1 /\ last'.op = "DelProject") =>
             \A k \in ChildKeys(cache, ResProject, last'.id) :
                k \in DOMAIN cache' /\ cache'[k] = cache[k]
       /\ (calls' = calls + 1 /\ last'.op = "DelTenant") =>
             \A k \in ChildKeys(cache, ResTenant, last'.id) :
                k \in DOMAIN cache' /\ cache'[k] = cache[k]]_vars

\* A successful DelTenant that removed the tenant while a project it owns is
\* still found, the tenant's entry being the parent that project names.
C11_Witness ==
    /\ last.op = "DelTenant" /\ ~last.err /\ last.n = 1
    /\ ~FindResource(ResTenant, last.id).found
    /\ \E p \in IDs :
          /\ FindResource(ResProject, p).found
          /\ FindResource(ResProject, p).e.Owner = <<OwnerRef(ResTenant, last.id)>>

\* The user a call of the aggregator was made for.
UserOf(l) == CHOOSE u \in Users : u.Username = l.name

\* The rows of one relation kind that belong to a user.
RowsOf(rows, uid) == SelectSeq(rows, LAMBDA r : r.UserID = uid)

\* C13: FlushUserAuthority always returns a best-effort result and no error.
\* When the query of one part (system role, tenant, project, environment or
\* virtual-space relations) fails, that part is empty and every other part is
\* filled from its rows; when the write-back fails, the value computed is
\* returned all the same, after the one SET.
C13_FlushBestEffort ==
    (last.op = "FlushUserAuthority") =>
        LET u == UserOf(last)
            part(step, rows, adminRole) ==
                IF last.failed = step THEN <<>>
                ELSE Flatten(RowsOf(rows, u.ID), adminRole)
        IN /\ ~last.err
           /\ last.cmds = <<"SET">>
           /\ last.result.SystemRole =
                 (IF last.failed = "sysrole" THEN ""
                  ELSE SystemRoleCode(db.sysroles, u.SystemRoleID, TRUE))
           /\ last.result.Tenants = part("tenants", db.turs, TenantRoleAdmin)
           /\ last.result.Projects = part("projects", db.purs, ProjectRoleAdmin)
           /\ last.result.Environments = part("envs", db.eurs, EnvironmentRoleOperator)
           /\ last.result.VirtualSpaces = part("vspaces", db.vurs, VirtualSpaceRoleAdmin)
           /\ last.failed = "set" => last.result = ComputeAuthority(db, u, "none")

\* A flush whose project query failed for a user with project rows: the
\* projects are empty, the system role, tenants and environments are filled.
C13_Witness ==
    /\ last.op = "FlushUserAuthority" /\ last.failed = "projects"
    /\ RowsOf(db.purs, last.id) # <<>>
    /\ last.result.Projects = <<>>
    /\ last.result.SystemRole = "sysadmin"
    /\ Len(last.result.Tenants) = 1 /\ last.result.Tenants[1].IsAdmin
    /\ Len(last.result.Environments) = 1

\* A step that completes a call of GetUserAuthority.
GetStep == calls' = calls + 1 /\ last'.op = "GetUserAuthority"

\* The entry a flush that computed `auth` leaves when its SET succeeds.
FreshEntry(auth) ==
    [value |-> MarshalAuthority(auth), ttl |-> userAuthorizationDataExpireMinute,
     age |-> 0]

\* C12: authority fallback.  When the user's cached entry is absent (never
\* written, or expired) or malformed, GetUserAuthority returns what
\* FlushUserAuthority computes from the store at that time and has the effect
\* of that flush on the cache: a freshly written entry holding the value
\* returned (unless the write-back itself failed, which a flush only logs).
C12_AuthorityFallback ==
    [][LET u == UserOf(last')
           key == userAuthorityKey(u.Username)
           flush == DoFlushUserAuthority(authority, db, u, last'.failed)
       IN (GetStep /\ ScanAuthority(authority, key, TRUE) \in {"nil", "decode"}) =>
             /\ last'.result = flush.result
             /\ last'.result = ComputeAuthority(db, u, last'.failed)
             /\ authority' = flush.keys
             /\ last'.failed # "set" =>
                   /\ key \in DOMAIN authority'
                   /\ authority'[key] = FreshEntry(last'.result)]_vars

\* A GetUserAuthority that found bytes that do not decode under the user's
\* key, recomputed the authority of a user with roles and left it cached.
C12_Witness ==
    /\ last.op = "GetUserAuthority" /\ last.scan = "decode" /\ last.failed = "none"
    /\ last.result.SystemRole = "sysadmin"
    /\ Len(last.result.Tenants) = 1
    /\ userAuthorityKey(last.name) \in DOMAIN authority
    /\ authority[userAuthorityKey(last.name)] = FreshEntry(last.result)

\* C19: staleness of a cached authority is bounded by the expiry window.
\* Every entry of the backend carries the fixed time-to-live of 180 minutes
\* and is younger than that; a GetUserAuthority that returns the cached entry
\* returns one written less than 180 minutes earlier, and one that finds the
\* entry expired (absent) returns the authority recomputed from the store as
\* it is then.
C19_StalenessBounded ==
    [][/\ \A k \in DOMAIN authority' :
             /\ authority'[k].ttl = userAuthorizationDataExpireMinute
             /\ authority'[k].age < userAuthorizationDataExpireMinute
       /\ GetStep =>
             LET u == UserOf(last')
                 key == userAuthorityKey(u.Username)
             IN IF last'.cmds = <<"GET">>
                THEN /\ key \in DOMAIN authority
                     /\ authority[key].age < userAuthorizationDataExpireMinute
                     /\ last'.result = UnmarshalAuthority(authority[key].value)
                ELSE last'.result = ComputeAuthority(db, u, last'.failed)]_vars

\* A GetUserAuthority that returned an entry written two ticks earlier, after
\* the store had changed: the value returned is no longer what the store says.
C19_Witness ==
    /\ last.op = "GetUserAuthority" /\ last.cmds = <<"GET">>
    /\ userAuthorityKey(last.name) \in DOMAIN authority
    /\ authority[userAuthorityKey(last.name)].age = 2 * TickMinutes
    /\ last.result = UnmarshalAuthority(authority[userAuthorityKey(last.name)].value)
    /\ last.result # ComputeAuthority(db, UserOf(last), "none")

\* The position of a write among the backend writes of a Mutation API method.
WriteIndex(step) == IF step \in {"hset2", "hdel2"} THEN 2 ELSE 1

\* C17: a Mutation API call surfaces a failed backend write as an error after
\* a single attempt.  The call returns an error exactly when one of its
\* writes failed, that write is the last command it issued (nothing is
\* retried, nothing follows), and no method issues more writes than it has
\* keys: one, or two for an environment.
C17_FailedWriteSurfaces ==
    (last.op \in MutationOps) =>
        /\ last.err <=> last.failed # "none"
        /\ last.down => last.err
        /\ last.failed # "none" => Len(last.cmds) = WriteIndex(last.failed)
        /\ Len(last.cmds) <= Cardinality(TargetKeys(last))

\* An UpsertEnvironment whose second write failed: the error is returned
\* after the two writes, the first of which has been applied.
C17_Witness ==
    /\ last.op = "UpsertEnvironment" /\ last.err /\ last.down
    /\ last.failed = "hset2" /\ last.cmds = <<"HSET", "HSET">>
    /\ FindResource(ResEnvironment, last.id) = Found(EnvironmentOf(last))
    /\ ~FindEnvironment(last.cluster, last.namespace).found

\* C18: a failure of the existence check, of one of the relational reads or
\* of the bulk write of BuildCacheIfNotExist aborts the rebuild with an error;
\* when the existence check or a read failed, no write was issued and the
\* cache is as it was; the bulk write is attempted once.
C18_BuildFailureAborts ==
    [][BuildStep =>
          /\ last'.failed # "none" => last'.err
          /\ last'.failed \in {"exists", "tenants", "projects", "envs", "vspaces"} =>
                (cache' = cache /\ last'.cmds = <<"EXISTS">>)
          /\ last'.failed = "hset" => last'.cmds = <<"EXISTS", "HSET">>
          /\ last'.err => last'.failed # "none"]_vars

\* A rebuild of a store with rows that failed reading the virtual spaces, the
\* last read of the scan, on a cold cache: the cache is still empty.
C18_Witness ==
    /\ last.op = "BuildCacheIfNotExist" /\ last.err /\ last.failed = "vspaces"
    /\ StoreNonEmpty(db)
    /\ cache = EmptyHash

\* A step that completes a call of FindParents.
FindParentsStep == calls' = calls + 1 /\ last'.op = "FindParents"

\* C20: FindParents degrades without failing.  When the evaluation of the
\* script fails the result is empty; otherwise the result is made of the raw
\* parents that decode, each decoded, in the order the script returned them:
\* one that does not decode is left out and the others keep their places
\* relative to each other.  The call changes nothing.
C20_FindParentsDegrades ==
    [][FindParentsStep =>
          LET raw == FindParentScript(cache, last'.kind, last'.id)
              good == {i \in 1..Len(raw) : DecodableEntity(raw[i])}
              rank(i) == Cardinality({j \in good : j <= i})
          IN /\ last'.failed = "eval" => last'.parents = <<>>
             /\ last'.failed = "none" =>
                   /\ Len(last'.parents) = Cardinality(good)
                   /\ \A i \in good : last'.parents[rank(i)] = Unmarshal(raw[i])
             /\ ~last'.err
             /\ cache' = cache]_vars

\* FindParents of an environment whose project entry does not decode and
\* whose tenant entry does: the script returned both, the call the tenant.
C20_Witness ==
    /\ last.op = "FindParents" /\ last.kind = ResEnvironment /\ last.failed = "none"
    /\ Len(FindParentScript(cache, last.kind, last.id)) = 2
    /\ ~DecodableEntity(FindParentScript(cache, last.kind, last.id)[1])
    /\ Len(last.parents) = 1
    /\ last.parents[1].Kind = ResTenant

(***************************************************************************)
(* Concurrent callers.  Each caller makes one call; every backend command  *)
(* and the scan of the store is one atomic step of its own, and the steps  *)
(* of the callers interleave freely.  The backend is reachable and the     *)
(* store does not change while the calls run.                              *)
(***************************************************************************)
ConcurrentOps ==
    {"BuildCacheIfNotExist", "UpsertTenant", "UpsertProject", "DelProject",
     "UpsertEnvironment", "DelEnvironment", "UpsertVirtualSpace"}

\* The call of a caller: its method and the arguments the method uses.
NewCall(op, id, name, parent, cluster, namespace) ==
    [IdleProc EXCEPT
        !.pc = IF op = "BuildCacheIfNotExist" THEN "exists" ELSE "write1",
        !.op = op,
        !.id = IF op = "BuildCacheIfNotExist" THEN 0 ELSE id,
        !.name = IF op \in {"UpsertTenant", "UpsertProject", "UpsertEnvironment",
                            "UpsertVirtualSpace"} THEN name ELSE "",
        !.parent = IF op \in {"UpsertProject", "UpsertEnvironment"} THEN parent ELSE 0,
        !.cluster = IF op \in {"UpsertEnvironment", "DelEnvironment"} THEN cluster ELSE "",
        !.namespace = IF op \in {"UpsertEnvironment", "DelEnvironment"}
                      THEN namespace ELSE ""]

\* Variant: the bulk write is refused when the key exists already.
BuildWrite_Exclusive(h, data) ==
    IF Exists(h) > 0 THEN [err |-> TRUE, hash |-> h, n |-> 0]
    ELSE HSetMap(h, data, TRUE)

\* The bulk write of a rebuild.
BuildWrite(h, data) == HSetMap(h, data, TRUE)

\* The first backend command of a Mutation API call c.
FirstWrite(h, c) ==
    CASE c.op = "UpsertTenant" -> HSetMap(h, toPair(TenantOf(c)), TRUE)
      [] c.op = "UpsertProject" -> HSetMap(h, toPair(ProjectOf(c)), TRUE)
      [] c.op = "DelProject" -> HDel(h, cacheKey(ResProject, c.id), TRUE)
      [] c.op = "UpsertEnvironment" -> HSetMap(h, toPair(EnvironmentOf(c)), TRUE)
      [] c.op = "DelEnvironment" -> HDel(h, cacheKey(ResEnvironment, c.id), TRUE)
      [] c.op = "UpsertVirtualSpace" ->
            HSetArgs(h, <<cacheKey(ResVirtualSpace, c.id)>>, TRUE)

\* The second backend command of UpsertEnvironment and of DelEnvironment.
SecondWrite(h, c) ==
    CASE c.op = "UpsertEnvironment" -> HSetMap(h, toEnvPair(EnvironmentOf(c)), TRUE)
      [] c.op = "DelEnvironment" -> HDel(h, envCacheKey(c.cluster, c.namespace), TRUE)

BeginCall ==
    \E p \in Procs, op \in ConcurrentOps, id \in IDs, name \in Names, parent \in IDs,
       cluster \in Clusters, namespace \in Namespaces :
        /\ procs[p].pc = "idle"
        /\ procs' = [procs EXCEPT ![p] = NewCall(op, id, name, parent, cluster, namespace)]
        /\ UNCHANGED <<db, cache, authority, last, calls, history>>

BuildExists ==
    \E p \in Procs :
        /\ procs[p].pc = "exists"
        /\ procs' = [procs EXCEPT ![p].r = Exists(cache),
                                  ![p].cmds = <<"EXISTS">>,
                                  ![p].pc = IF Exists(cache) > 0 THEN "done" ELSE "scan"]
        /\ UNCHANGED <<db, cache, authority, last, calls, history>>

BuildScan ==
    \E p \in Procs :
        /\ procs[p].pc = "scan"
        /\ procs' = [procs EXCEPT ![p].data = DataMap(db),
                                  ![p].pc = IF DOMAIN DataMap(db) = {} THEN "done"
                                            ELSE "hset"]
        /\ UNCHANGED <<db, cache, authority, last, calls, history>>

BuildHSet ==
    \E p \in Procs :
        /\ procs[p].pc = "hset"
        /\ cache' = BuildWrite(cache, procs[p].data).hash
        /\ procs' = [procs EXCEPT ![p].err = BuildWrite(cache, procs[p].data).err,
                                  ![p].cmds = Append(@, "HSET"),
                                  ![p].pc = "done"]
        /\ UNCHANGED <<db, authority, last, calls, history>>

MutationWrite1 ==
    \E p \in Procs :
        /\ procs[p].pc = "write1"
        /\ cache' = FirstWrite(cache, procs[p]).hash
        /\ procs' = [procs EXCEPT
                        ![p].err = FirstWrite(cache, procs[p]).err,
                        ![p].cmds = <<IF procs[p].op \in {"DelProject", "DelEnvironment"}
                                      THEN "HDEL" ELSE "HSET">>,
                        ![p].pc = IF /\ ~FirstWrite(cache, procs[p]).err
                                     /\ procs[p].op \in {"UpsertEnvironment", "DelEnvironment"}
                                  THEN "write2" ELSE "done"]
        /\ UNCHANGED <<db, authority, last, calls, history>>

MutationWrite2 ==
    \E p \in Procs :
        /\ procs[p].pc = "write2"
        /\ cache' = SecondWrite(cache, procs[p]).hash
        /\ procs' = [procs EXCEPT
                        ![p].err = SecondWrite(cache, procs[p]).err,
                        ![p].cmds = Append(@, IF procs[p].op = "DelEnvironment"
                                              THEN "HDEL" ELSE "HSET"),
                        ![p].pc = "done"]
        /\ UNCHANGED <<db, authority, last, calls, history>>

ConcurrentNext ==
    \/ BeginCall
    \/ BuildExists
    \/ BuildScan
    \/ BuildHSet
    \/ MutationWrite1
    \/ MutationWrite2

ConcurrentSpec == Init /\ [][ConcurrentNext]_vars

\* C14: two BuildCacheIfNotExist calls running concurrently on a cold cache
\* converge.  Once both have completed, both have returned success and the
\* cache holds the keys and values one rebuild alone produces: the image of
\* the store (both may have passed the existence check and written).
C14_ConcurrentRebuildsConverge ==
    (\A p \in Procs : procs[p].op = "BuildCacheIfNotExist" /\ procs[p].pc = "done") =>
        /\ \A p \in Procs : ~procs[p].err
        /\ cache = BuildCache(EmptyHash, db, "none").hash
        /\ ImageOfStore(cache, db)

\* Both rebuilds found the key absent and both issued the bulk write.
C14_Witness ==
    /\ \A p \in Procs :
          /\ procs[p].op = "BuildCacheIfNotExist" /\ procs[p].pc = "done"
          /\ procs[p].r = 0
          /\ procs[p].cmds = <<"EXISTS", "HSET">>
    /\ StoreNonEmpty(db)
    /\ FindEnvironment("c1", "ns1").found

\* Call u is an Upsert and call d a Delete of the same entity, both completed.
UpsertDeleteRace(u, d) ==
    /\ u.pc = "done" /\ d.pc = "done"
    /\ \/ u.op = "UpsertProject" /\ d.op = "DelProject"
       \/ /\ u.op = "UpsertEnvironment" /\ d.op = "DelEnvironment"
          /\ u.cluster = d.cluster /\ u.namespace = d.namespace
    /\ u.id = d.id

\* The hash the whole method of call c leaves of hash h.
Serial(h, c) ==
    CASE c.op = "UpsertProject" -> DoUpsertProject(h, c.parent, c.id, c.name, "none").hash
      [] c.op = "DelProject" -> DoDelProject(h, c.parent, c.id, "none").hash
      [] c.op = "UpsertEnvironment" ->
            DoUpsertEnvironment(h, c.parent, c.id, c.name, c.cluster, c.namespace,
                                "none").hash
      [] c.op = "DelEnvironment" ->
            DoDelEnvironment(h, c.parent, c.id, c.cluster, c.namespace, "none").hash

\* C15: a concurrent Upsert and Delete of the same entity are last-write-wins.
\* Once both have completed (on a cache that was empty), the cache is what
\* running the two calls one after the other leaves, in one of the two
\* orders; for an environment that covers its primary and its secondary
\* entry together.
C15_UpsertDeleteLastWriteWins ==
    \A p, q \in Procs :
        UpsertDeleteRace(procs[p], procs[q]) =>
            \/ cache = Serial(Serial(EmptyHash, procs[p]), procs[q])
            \/ cache = Serial(Serial(EmptyHash, procs[q]), procs[p])

\* The calls of all callers are completed Upserts of entities that differ in
\* (Kind, ID), environments in their (cluster, namespace) as well.
DistinctUpserts ==
    /\ \A p \in Procs :
          /\ procs[p].pc = "done"
          /\ procs[p].op \in {"UpsertTenant", "UpsertProject", "UpsertEnvironment",
                               "UpsertVirtualSpace"}
    /\ \A p, q \in Procs :
          p # q =>
             /\ <<procs[p].op, procs[p].id>> # <<procs[q].op, procs[q].id>>
             /\ (procs[p].op = "UpsertEnvironment" /\ procs[q].op = "UpsertEnvironment") =>
                   <<procs[p].cluster, procs[p].namespace>>
                      # <<procs[q].cluster, procs[q].namespace>>

\* The entity of Upsert call c is found by its lookups as the call built it.
FoundAsWritten(c) ==
    CASE c.op = "UpsertTenant" -> FindResource(ResTenant, c.id) = Found(TenantOf(c))
      [] c.op = "UpsertProject" -> FindResource(ResProject, c.id) = Found(ProjectOf(c))
      [] c.op = "UpsertEnvironment" ->
            /\ FindResource(ResEnvironment, c.id) = Found(EnvironmentOf(c))
            /\ FindEnvironment(c.cluster, c.namespace) = Found(EnvironmentOf(c))
      [] c.op = "UpsertVirtualSpace" ->
            FindResource(ResVirtualSpace, c.id) = Found(VirtualSpaceOf(c))

\* C16: Upserts are safe to call concurrently for distinct entities.  However
\* the commands of Upsert calls on distinct entities interleave, once all
\* have completed every one of the entities is found by FindResource (and an
\* environment by FindEnvironment) with exactly the value its own Upsert
\* built.
C16_ConcurrentUpsertsDistinct ==
    DistinctUpserts => \A p \in Procs : FoundAsWritten(procs[p])

(***************************************************************************)
(* The key space: the Mutation API called with IDs whose decimal forms     *)
(* share a prefix and with cluster and namespace strings that spell a kind *)
(* and an ID.                                                              *)
(***************************************************************************)
KeyIDs == {1, 11}
KeyClusters == {"c1", "tenant"}
KeyNamespaces == {"ns1", "1"}

KeyedUpsertTenant ==
    \E tid \in KeyIDs :
        /\ calls < MaxCalls
        /\ Finish("UpsertTenant", tid, "acme", 0, "", "",
                  DoUpsertTenant(cache, tid, "acme", "none"))

KeyedUpsertProject ==
    \E pid \in KeyIDs :
        /\ calls < MaxCalls
        /\ Finish("UpsertProject", pid, "web", 1, "", "",
                  DoUpsertProject(cache, 1, pid, "web", "none"))

KeyedUpsertEnvironment ==
    \E eid \in KeyIDs, cluster \in KeyClusters, namespace \in KeyNamespaces :
        /\ calls < MaxCalls
        /\ Finish("UpsertEnvironment", eid, "web", 1, cluster, namespace,
                  DoUpsertEnvironment(cache, 1, eid, "web", cluster, namespace, "none"))

KeyedDelEnvironment ==
    \E eid \in KeyIDs, cluster \in KeyClusters, namespace \in KeyNamespaces :
        /\ calls < MaxCalls
        /\ Finish("DelEnvironment", eid, "", 0, cluster, namespace,
                  DoDelEnvironment(cache, 1, eid, cluster, namespace, "none"))

KeyNext ==
    \/ KeyedUpsertTenant
    \/ KeyedUpsertProject
    \/ KeyedUpsertEnvironment
    \/ KeyedDelEnvironment

KeySpec == Init /\ [][KeyNext]_vars

\* Every primary key over the kinds and KeyIDs.
PrimaryKeys == {cacheKey(kind, id) : kind \in Kinds, id \in KeyIDs}

UnresolvedEnvs(d) == {row \in Rows(d.envs) : ~row.HasCluster}

\* C22 as stated: a BuildCacheIfNotExist that scans a store with an
\* environment row whose Cluster did not resolve returns success, writes
\* neither key of that environment, writes every other row, and logs one
\* warning for each skipped row.
C22_SkippedEnvironmentLogged ==
    (/\ last.op = "BuildCacheIfNotExist"
     /\ last.reads = StoreReads /\ last.failed = "none"
     /\ UnresolvedEnvs(db) # {}) =>
        /\ ~last.err
        /\ last.cmds = <<"EXISTS", "HSET">>
        /\ \A row \in UnresolvedEnvs(db) :
              /\ cacheKey(ResEnvironment, row.ID) \notin DOMAIN cache
              /\ envCacheKey(row.ClusterName, row.Namespace) \notin DOMAIN cache
        /\ AllRowsCached(cache, db)
        /\ Cardinality({i \in 1..Len(last.logs) : last.logs[i].level = "warn"})
              = Cardinality(UnresolvedEnvs(db))

\* C23: a BuildCacheIfNotExist whose full scan of the store yields no row
\* returns success without writing to the cache: the top-level key stays
\* absent, and so the next BuildCacheIfNotExist, like every one that finds the
\* key absent, reads the store again.
C23_EmptyScanWritesNothing ==
    [][(BuildStep /\ Exists(cache) = 0 /\ ~StoreNonEmpty(db)
           /\ last'.failed \notin {"exists", "tenants", "projects", "envs", "vspaces"}) =>
          /\ ~last'.err
          /\ last'.cmds = <<"EXISTS">>
          /\ cache' = cache /\ Exists(cache') = 0
          /\ last'.reads = StoreReads
          /\ last'.logs = <<LogLine("info", "empty cache data")>>]_vars

\* The second of two calls: a rebuild that has read the four tables of a store
\* without rows and left the cache without its key.
C23_Witness ==
    /\ last.op = "BuildCacheIfNotExist" /\ ~last.err
    /\ calls = 2
    /\ ~StoreNonEmpty(db)
    /\ last.reads = StoreReads /\ last.cmds = <<"EXISTS">>
    /\ Exists(cache) = 0

\* C24: while a user's authority entry is present, decodable and unexpired, a
\* GetUserAuthority whose GET reaches the backend returns exactly the stored
\* value, makes no query of the relational store and writes nothing to the
\* cache, whatever the role assignments of the store are by then.
C24_CacheHitFrame ==
    [][LET u == UserOf(last')
           key == userAuthorityKey(u.Username)
       IN (GetStep /\ last'.failed # "get"
              /\ ScanAuthority(authority, key, TRUE) = "ok") =>
             /\ last'.result = UnmarshalAuthority(authority[key].value)
             /\ last'.reads = <<>>
             /\ last'.cmds = <<"GET">>
             /\ authority' = authority
             /\ db' = db]_vars

\* A GetUserAuthority that returned the entry written one tick earlier without
\* a query of the store, whose role assignments are no longer those of the
\* entry.
C24_Witness ==
    /\ last.op = "GetUserAuthority" /\ last.scan = "ok"
    /\ last.reads = <<>> /\ last.cmds = <<"GET">>
    /\ userAuthorityKey(last.name) \in DOMAIN authority
    /\ authority[userAuthorityKey(last.name)].age = TickMinutes
    /\ last.result = UnmarshalAuthority(authority[userAuthorityKey(last.name)].value)
    /\ last.result.Tenants # ComputeAuthority(db, UserOf(last), "none").Tenants

\* A step that completes a call of FlushUserAuthority.
FlushStep == calls' = calls + 1 /\ last'.op = "FlushUserAuthority"

\* List `list` has one UserResource per row of `rows`, in the order of the
\* rows, with the row's resource ID, resource name and Role, and IsAdmin set
\* exactly when the Role is adminRole.
FlattenedFrom(list, rows, adminRole) ==
    /\ Len(list) = Len(rows)
    /\ \A i \in 1..Len(rows) :
          /\ list[i].ID = rows[i].ResourceID
          /\ list[i].Name = rows[i].ResourceName
          /\ list[i].Role = rows[i].Role
          /\ list[i].IsAdmin <=> rows[i].Role = adminRole

\* C26: FlushUserAuthority flattens each relation kind one-to-one and in
\* order.  When no query fails, each of the four lists of the result has
\* exactly one UserResource per relation row of the user of that kind, in the
\* order of the rows, with the row's resource ID, resource name and Role;
\* IsAdmin is true exactly when the Role is the administrative role constant
\* of that kind: TenantRoleAdmin, ProjectRoleAdmin, EnvironmentRoleOperator,
\* VirtualSpaceRoleAdmin.
C26_FlattenOneToOne ==
    [][(FlushStep /\ last'.failed \in {"none", "set"}) =>
          LET u == UserOf(last')
          IN /\ FlattenedFrom(last'.result.Tenants, RowsOf(db.turs, u.ID), TenantRoleAdmin)
             /\ FlattenedFrom(last'.result.Projects, RowsOf(db.purs, u.ID), ProjectRoleAdmin)
             /\ FlattenedFrom(last'.result.Environments, RowsOf(db.eurs, u.ID),
                              EnvironmentRoleOperator)
             /\ FlattenedFrom(last'.result.VirtualSpaces, RowsOf(db.vurs, u.ID),
                              VirtualSpaceRoleAdmin)]_vars

\* A flush for alice after more roles were granted: two tenants in the order
\* of their rows, the second one administered; of her two environments the
\* one with role "admin" is not administered and the one with "operator" is.
C26_Witness ==
    /\ last.op = "FlushUserAuthority" /\ last.failed = "none" /\ last.name = "alice"
    /\ db = DBGranted
    /\ Len(last.result.Tenants) = 2
    /\ last.result.Tenants[1].ID = 1 /\ ~last.result.Tenants[1].IsAdmin
    /\ last.result.Tenants[2].ID = 2 /\ last.result.Tenants[2].IsAdmin
    /\ Len(last.result.Environments) = 2
    /\ last.result.Environments[1].Role = "admin" /\ ~last.result.Environments[1].IsAdmin
    /\ last.result.Environments[2].Role = "operator" /\ last.result.Environments[2].IsAdmin

\* The owners an entity of each kind has.
OwnerShape(e) ==
    CASE e.Kind = ResTenant -> e.Owner = <<>>
      [] e.Kind = ResVirtualSpace -> e.Owner = <<>>
      [] e.Kind = ResProject -> Len(e.Owner) = 1 /\ e.Owner[1].Kind = ResTenant
      [] e.Kind = ResEnvironment -> Len(e.Owner) = 1 /\ e.Owner[1].Kind = ResProject
      [] OTHER -> FALSE

\* C27: ownership shape.  In every cache state that BuildCacheIfNotExist and
\* the Mutation API produce, every stored tenant and virtual space has no
\* owner, every project exactly one owner of kind tenant and every
\* environment exactly one owner of kind project; so no entity is among its
\* own ancestors and every ownership chain has at most 2 hops.
C27_OwnershipShape ==
    \A k \in DOMAIN cache :
        LET e == Unmarshal(cache[k])
            parents == FindParentsOf(cache, e.Kind, e.ID)
        IN /\ OwnerShape(e)
           /\ Len(parents) <= 2
           /\ \A i \in 1..Len(parents) :
                 ~(parents[i].Kind = e.Kind /\ parents[i].ID = e.ID)

\* After a rebuild, an UpsertEnvironment has stored an environment whose chain
\* has the two hops: its project, then the tenant of the project.
C27_Witness ==
    /\ last.op = "UpsertEnvironment" /\ ~last.err /\ calls = 2
    /\ FindResource(ResEnvironment, last.id).found
    /\ FindResource(ResEnvironment, last.id).e.Owner = <<OwnerRef(ResProject, last.parent)>>
    /\ Len(FindParents(ResEnvironment, last.id)) = 2
    /\ FindParents(ResEnvironment, last.id)[1].Kind = ResProject
    /\ FindParents(ResEnvironment, last.id)[2].Kind = ResTenant

\* A step that completes a call of FindResource or FindEnvironment.
LookupStep == calls' = calls + 1 /\ last'.op \in {"FindResource", "FindEnvironment"}

\* The one field a point lookup names.
LookupKey(l) ==
    IF l.op = "FindResource" THEN cacheKey(l.kind, l.id)
    ELSE envCacheKey(l.cluster, l.namespace)

\* C28: FindResource(kind, id) and FindEnvironment(cluster, namespace) are
\* single-key point lookups.  They issue one HGET of exactly their key and
\* return the entity stored there as it is stored, its owners being the bare
\* references kept in the value; they return nothing when the key is absent,
\* when its value does not decode, or when the HGET fails; and they leave the
\* cache as it was.
C28_PointLookups ==
    [][LookupStep =>
          LET key == LookupKey(last')
              stored == key \in DOMAIN cache /\ DecodableEntity(cache[key])
          IN /\ cache' = cache
             /\ last'.cmds = <<"HGET">>
             /\ (stored /\ last'.failed = "none") =>
                   /\ last'.entity = Found(Unmarshal(cache[key]))
                   /\ \A i \in 1..Len(last'.entity.e.Owner) :
                         last'.entity.e.Owner[i]
                            = OwnerRef(cache[key].owner[i].kind, cache[key].owner[i].id)
             /\ (~stored \/ last'.failed # "none") => ~last'.entity.found]_vars

\* After a rebuild, a FindEnvironment that found the environment stored under
\* its cluster and namespace, its owner a bare reference to project 2, which
\* is in the cache with its name.
C28_Witness ==
    /\ last.op = "FindEnvironment" /\ last.entity.found /\ calls = 2
    /\ last.entity.e.Kind = ResEnvironment
    /\ last.entity.e.Owner = <<OwnerRef(ResProject, 2)>>
    /\ FindResource(ResProject, 2).found
    /\ FindResource(ResProject, 2).e.Name = "web"

\* C29 as stated: when UpsertEnvironment or DelEnvironment returns an error,
\* the two keys of the environment are still mutually consistent: the cache
\* holds both the primary and the secondary entry with the same value, or
\* neither of them.
C29_ErrorLeavesKeysConsistent ==
    (last.op \in {"UpsertEnvironment", "DelEnvironment"} /\ last.err) =>
        LET primary == cacheKey(ResEnvironment, last.id)
            secondary == envCacheKey(last.cluster, last.namespace)
        IN \/ /\ primary \in DOMAIN cache /\ secondary \in DOMAIN cache
              /\ cache[primary] = cache[secondary]
           \/ primary \notin DOMAIN cache /\ secondary \notin DOMAIN cache

(***************************************************************************)
(* A rebuild racing with the Mutation API.  The relational store changes   *)
(* once, a project row is deleted or renamed, and the Mutation API call    *)
(* that reports the change is made after the change was committed; a       *)
(* rebuild may be anywhere in its steps meanwhile.  `last` keeps the       *)
(* change committed to the store.                                          *)
(***************************************************************************)
ProjectRowsWith(d, pid) == SelectSeq(d.projects, LAMBDA row : row.ID = pid)

BeginRebuild ==
    \E p \in Procs :
        /\ procs[p].pc = "idle"
        /\ procs' = [procs EXCEPT ![p] = NewCall("BuildCacheIfNotExist", 0, "", 0, "", "")]
        /\ UNCHANGED <<db, cache, authority, last, calls, history>>

DeleteProjectRow ==
    \E pid \in IDs :
        /\ last.op = "none"
        /\ ProjectRowsWith(db, pid) # <<>>
        /\ db' = [db EXCEPT !.projects = SelectSeq(@, LAMBDA row : row.ID # pid)]
        /\ last' = [NoCall EXCEPT !.op = "DeleteProjectRow", !.id = pid]
        /\ UNCHANGED <<cache, authority, calls, history, procs>>

RenameProjectRow ==
    \E pid \in IDs, name \in Names :
        /\ last.op = "none"
        /\ ProjectRowsWith(db, pid) # <<>>
        /\ ProjectRowsWith(db, pid)[1].ProjectName # name
        /\ db' = [db EXCEPT !.projects =
                      [i \in 1..Len(@) |->
                          IF @[i].ID = pid THEN [@[i] EXCEPT !.ProjectName = name]
                          ELSE @[i]]]
        /\ last' = [NoCall EXCEPT !.op = "RenameProjectRow", !.id = pid, !.name = name,
                                   !.parent = ProjectRowsWith(db, pid)[1].TenantID]
        /\ UNCHANGED <<cache, authority, calls, history, procs>>

\* DelProject is called for the project whose row was deleted.
BeginDelProject ==
    \E p \in Procs :
        /\ procs[p].pc = "idle"
        /\ last.op = "DeleteProjectRow"
        /\ procs' = [procs EXCEPT ![p] = NewCall("DelProject", last.id, "", 0, "", "")]
        /\ UNCHANGED <<db, cache, authority, last, calls, history>>

\* UpsertProject is called with the new name of the project that was renamed.
BeginUpsertProject ==
    \E p \in Procs :
        /\ procs[p].pc = "idle"
        /\ last.op = "RenameProjectRow"
        /\ procs' = [procs EXCEPT
                        ![p] = NewCall("UpsertProject", last.id, last.name, last.parent,
                                       "", "")]
        /\ UNCHANGED <<db, cache, authority, last, calls, history>>

RebuildRaceNext ==
    \/ BeginRebuild
    \/ DeleteProjectRow
    \/ RenameProjectRow
    \/ BeginDelProject
    \/ BeginUpsertProject
    \/ BuildExists
    \/ BuildScan
    \/ BuildHSet
    \/ MutationWrite1

RebuildRaceSpec == Init /\ [][RebuildRaceNext]_vars

\* C30 as stated: a BuildCacheIfNotExist that runs concurrently with Mutation
\* API calls never resurrects or reverts an entity.  Once the rebuild and a
\* DelProject (or UpsertProject) that followed a change of the relational
\* store have both completed, the cache holds no entry for the deleted
\* project (and, for the renamed one, the value the UpsertProject wrote).
C30_RebuildNeverResurrects ==
    \A p \in Procs, q \in Procs :
        (/\ procs[p].op = "BuildCacheIfNotExist" /\ procs[p].pc = "done"
         /\ procs[q].pc = "done") =>
            /\ procs[q].op = "DelProject" =>
                  ~FindResource(ResProject, procs[q].id).found
            /\ procs[q].op = "UpsertProject" =>
                  FindResource(ResProject, procs[q].id) = Found(ProjectOf(procs[q]))

(***************************************************************************)
(* Concurrent callers of the aggregator for one user.  The GET, the        *)
(* queries of the store and the SET of a call are steps of their own and   *)
(* the steps of the callers interleave freely; a caller may make another   *)
(* call when its call has returned.  The role assignments of the store     *)
(* change once.  `last` keeps how far the change has got: committed to the *)
(* store, then refreshed by a FlushUserAuthority begun after the commit;   *)
(* field r of a caller keeps how far it had got when the call began, and   *)
(* field data the authority the call read and returns.                     *)
(***************************************************************************)
MaxBegun == 3

RefreshUser == User("alice", 1, 1)

\* 0 before the change, 1 once it is committed, 2 once a refresh begun after
\* the commit has completed with its SET done.
Epoch == CASE last.op = "RoleChange" -> 1 [] last.op = "Refreshed" -> 2 [] OTHER -> 0

BeginGetUserAuthority ==
    \E p \in Procs :
        /\ procs[p].pc \in {"idle", "done"} /\ calls < MaxBegun
        /\ procs' = [procs EXCEPT
                        ![p] = [IdleProc EXCEPT !.pc = "get", !.op = "GetUserAuthority",
                                                !.name = RefreshUser.Username,
                                                !.id = RefreshUser.ID, !.r = Epoch]]
        /\ calls' = calls + 1
        /\ UNCHANGED <<db, cache, authority, last, history>>

BeginFlushUserAuthority ==
    \E p \in Procs :
        /\ procs[p].pc \in {"idle", "done"} /\ calls < MaxBegun
        /\ procs' = [procs EXCEPT
                        ![p] = [IdleProc EXCEPT !.pc = "read", !.op = "FlushUserAuthority",
                                                !.name = RefreshUser.Username,
                                                !.id = RefreshUser.ID, !.r = Epoch]]
        /\ calls' = calls + 1
        /\ UNCHANGED <<db, cache, authority, last, history>>

\* Redis.Get(key).Scan(&authinfo) of GetUserAuthority.
AuthorityGet ==
    \E p \in Procs :
        /\ procs[p].pc = "get"
        /\ LET key == userAuthorityKey(procs[p].name)
           IN procs' = [procs EXCEPT
                           ![p] = IF ScanAuthority(authority, key, TRUE) = "ok"
                                  THEN [@ EXCEPT !.pc = "done", !.cmds = <<"GET">>,
                                           !.data = UnmarshalAuthority(authority[key].value)]
                                  ELSE [@ EXCEPT !.pc = "read", !.cmds = <<"GET">>]]
        /\ UNCHANGED <<db, cache, authority, last, calls, history>>

\* The queries of FlushUserAuthority and the loops over their rows.
AuthorityRead ==
    \E p \in Procs :
        /\ procs[p].pc = "read"
        /\ procs' = [procs EXCEPT ![p].pc = "set",
                                  ![p].data = ComputeAuthority(db, RefreshUser, "none")]
        /\ UNCHANGED <<db, cache, authority, last, calls, history>>

\* Redis.Set of FlushUserAuthority, and its return.
AuthoritySet ==
    \E p \in Procs :
        /\ procs[p].pc = "set"
        /\ authority' = RedisSet(authority, userAuthorityKey(procs[p].name),
                                 MarshalAuthority(procs[p].data),
                                 userAuthorizationDataExpireMinute, TRUE)
        /\ procs' = [procs EXCEPT ![p].pc = "done", ![p].cmds = Append(@, "SET")]
        /\ last' = IF procs[p].op = "FlushUserAuthority" /\ procs[p].r = 1 /\ Epoch = 1
                   THEN [last EXCEPT !.op = "Refreshed"] ELSE last
        /\ UNCHANGED <<db, cache, calls, history>>

\* The role assignments of the store change, once.
CommitRoleChange ==
    /\ last.op = "none"
    /\ db' \in (DBs \cup {DBGranted}) \ {db}
    /\ ComputeAuthority(db', RefreshUser, "none") # ComputeAuthority(db, RefreshUser, "none")
    /\ last' = [NoCall EXCEPT !.op = "RoleChange"]
    /\ UNCHANGED <<cache, authority, calls, history, procs>>

RefreshNext ==
    \/ BeginGetUserAuthority
    \/ BeginFlushUserAuthority
    \/ AuthorityGet
    \/ AuthorityRead
    \/ AuthoritySet
    \/ CommitRoleChange

RefreshSpec == Init /\ [][RefreshNext]_vars

\* C25 as stated: a refresh forced on a role-assignment change takes effect.
\* Once a FlushUserAuthority that began after the change was committed has
\* completed with its cache write done, every GetUserAuthority for the user
\* that begins later returns the roles of the store as changed, whatever
\* other GetUserAuthority or FlushUserAuthority calls for the user run
\* concurrently.
C25_ForcedRefreshTakesEffect ==
    \A p \in Procs :
        (/\ procs[p].op = "GetUserAuthority" /\ procs[p].pc = "done"
         /\ procs[p].r = 2) =>
            procs[p].data = ComputeAuthority(db, RefreshUser, "none")

(***************************************************************************)
(* The aggregator next to the tree builder: both work on the same backend, *)
(* the entity map under ModelCacheKey and one key per user.                *)
(***************************************************************************)
IsolationNext ==
    \/ BuildCacheIfNotExist
    \/ UpsertTenant
    \/ GetUserAuthority
    \/ FlushUserAuthority

IsolationSpec == Init /\ [][IsolationNext]_vars

\* A step that completes a call of GetUserAuthority or FlushUserAuthority.
AuthorityStep ==
    calls' = calls + 1 /\ last'.op \in {"GetUserAuthority", "FlushUserAuthority"}

\* The authority entry of user v is after the step what it was before:
\* absent, or present with the same value, time-to-live and age.
EntryUntouched(v) ==
    LET key == userAuthorityKey(v.Username)
    IN /\ key \in DOMAIN authority' <=> key \in DOMAIN authority
       /\ key \in DOMAIN authority => authority'[key] = authority[key]

\* C31: authority entries are isolated.  The key of a user is neither the key
\* of a user with another username nor the key of the entity map; a
\* GetUserAuthority or FlushUserAuthority for one user leaves the entry of
\* every user with another username and the whole entity map as they were and
\* touches no key but that user's own; a BuildCacheIfNotExist leaves every
\* authority entry as it was.
C31_AuthorityIsolated ==
    [][/\ \A u \in Users, v \in Users :
             /\ userAuthorityKey(u.Username) # ModelCacheKey
             /\ userAuthorityKey(u.Username) = userAuthorityKey(v.Username) =>
                   u.Username = v.Username
       /\ AuthorityStep =>
             /\ cache' = cache
             /\ \A v \in Users : v.Username # last'.name => EntryUntouched(v)
             /\ DOMAIN authority' \subseteq
                   DOMAIN authority \cup {userAuthorityKey(last'.name)}
             /\ \A c \in 1..Len(last'.cmds) : last'.cmds[c] \in {"GET", "SET"}
       /\ BuildStep =>
             /\ authority' = authority
             /\ \A c \in 1..Len(last'.cmds) : last'.cmds[c] \in {"EXISTS", "HSET"}]_vars

\* A flush for bob has written his entry next to the one an earlier flush left
\* for alice, which still holds her roles.
C31_Witness ==
    /\ last.op = "FlushUserAuthority" /\ last.name = "bob" /\ last.failed = "none"
    /\ calls = 2 /\ StoreNonEmpty(db)
    /\ userAuthorityKey("bob") \in DOMAIN authority
    /\ userAuthorityKey("alice") \in DOMAIN authority
    /\ authority[userAuthorityKey("bob")].value = MarshalAuthority(last.result)
    /\ authority[userAuthorityKey("alice")].value
          = MarshalAuthority(ComputeAuthority(db, User("alice", 1, 1), "none"))
    /\ authority[userAuthorityKey("alice")].value # authority[userAuthorityKey("bob")].value

====
